---- MODULE Spec2Model ----
(***************************************************************************)
(* The KubeNova reconciliation engine (internal/controller) together with  *)
(* the desired-state builders it consumes (internal/builder) and the       *)
(* validator, as a state machine over the resource store.                  *)
(*                                                                         *)
(* One action per store call of a pass on the root object, one action per  *)
(* pipeline stage for the dependent resources, and one action per external *)
(* writer of the store.                                                    *)
(***************************************************************************)
EXTENDS Integers, Sequences, FiniteSets, TLC

(***************************************************************************)
(* Bounds of the model.                                                    *)
(***************************************************************************)
\* the store stops accepting changes of the desired state at this generation
MaxGen == 2
\* the number of store calls that fail for a reason outside the model
MaxFaults == 1
\* the number of edits that set an observed workload apart from the desired one
MaxEdits == 2

(***************************************************************************)
(* Program constants.                                                      *)
(***************************************************************************)
\* for i := 0; i < 3; i++
MaxAttempts == 3
\* the requeue delays of Reconcile, in seconds
IdleSeconds == 300
ErrorSeconds == 60
ShortSeconds == 30
\* the least length validateJWT accepts for a secret
MinJWTSecretLen == 32
\* the largest port the validator accepts
MaxPort == 65535

ServiceAccountName == "kube-nova-sa"
WebName == "kube-nova-web"
SecretName == "kube-nova-secret"
NginxConfigMapName == "frontend-nginx-config"

\* the backend components, in the order checkComponentStatus reads them
services == <<"portal-api", "portal-rpc", "manager-api", "manager-rpc",
              "workload-api", "console-api", "console-rpc">>

ServiceNames == {services[i] : i \in 1..Len(services)}

Workloads == ServiceNames \cup {WebName}

(***************************************************************************)
(* Helpers on sequences.                                                   *)
(***************************************************************************)
Range(s) == {s[i] : i \in 1..Len(s)}

(***************************************************************************)
(* The desired state of the root (KubeNova.Spec), with the accessors of    *)
(* the API types already applied: replica counts and images are the        *)
(* resolved values.                                                        *)
(***************************************************************************)
BaseSpec ==
    [ Database |-> [Host |-> "mysql", Database |-> "nova", User |-> "root",
                    Password |-> "pw", Port |-> 3306],
      Cache    |-> [Host |-> "redis", Port |-> 6379, Type |-> "node"],
      Storage  |-> [Endpoint |-> "minio:9000", AccessKey |-> "ak", SecretKey |-> "sk",
                    Bucket |-> "nova", TLSEnabled |-> FALSE, TLSSecretName |-> "",
                    EndpointProxy |-> ""],
      JWT      |-> [AccessSecretLen |-> 32, RefreshSecretLen |-> 32],
      Registry |-> [Registry |-> "reg", Organization |-> "org", Tag |-> "v1",
                    PullPolicy |-> "IfNotPresent", PullSecrets |-> <<>>],
      Services |-> [Enabled |-> {"portal-api"},
                    Replicas |-> [n \in ServiceNames |-> 1],
                    Image |-> [n \in ServiceNames |-> ""],
                    Env |-> [n \in ServiceNames |-> <<>>]],
      Web      |-> [ExposeType |-> "nodeport", CustomNginxConfigMap |-> "",
                    Replicas |-> 1, Image |-> "",
                    HTTPPort |-> 0, HTTPSEnabled |-> FALSE, HTTPSSecretName |-> "",
                    HTTPSPort |-> 0,
                    HasIngress |-> FALSE, IngressHost |-> "", IngressTLS |-> FALSE] ]

\* the desired states the root takes in the model
SpecTable ==
    [ np   |-> BaseSpec,
      np2  |-> [BaseSpec EXCEPT !.Services.Replicas["portal-api"] = 2],
      ing  |-> [BaseSpec EXCEPT !.Web.ExposeType = "ingress",
                                !.Web.HasIngress = TRUE,
                                !.Web.IngressHost = "nova.example.com",
                                !.Services.Enabled = {"portal-api", "portal-rpc"},
                                !.Storage.TLSEnabled = TRUE,
                                !.Storage.TLSSecretName = "minio-tls"],
      bad  |-> [BaseSpec EXCEPT !.Database.Host = ""],
      tls  |-> [BaseSpec EXCEPT !.Web.HTTPSEnabled = TRUE,
                                !.Web.HTTPSSecretName = "web-tls"],
      rot  |-> [BaseSpec EXCEPT !.Web.ExposeType = "ingress",
                                !.Web.HasIngress = TRUE,
                                !.Web.IngressHost = "nova.example.com",
                                !.Services.Enabled = {"portal-api", "portal-rpc"},
                                !.Storage.TLSEnabled = TRUE,
                                !.Storage.TLSSecretName = "minio-tls-2"] ]

\* the desired states a root is created with and changed to; the web tier
\* with https on a node port is examined from a root created with it, the
\* storage certificate under another secret name from a root that has one
SpecNames == DOMAIN SpecTable \ {"tls", "rot"}

(***************************************************************************)
(* The validator.                                                          *)
(***************************************************************************)
validateDatabase(db) ==
    IF db.Host = "" THEN "db-host"
    ELSE IF db.Database = "" THEN "db-name"
    ELSE IF db.User = "" THEN "db-user"
    ELSE IF db.Password = "" THEN "db-password"
    ELSE IF db.Port <= 0 \/ db.Port > MaxPort THEN "db-port"
    ELSE ""

validateCache(cache) ==
    IF cache.Host = "" THEN "redis-host"
    ELSE IF cache.Port <= 0 \/ cache.Port > MaxPort THEN "redis-port"
    ELSE IF cache.Type # "node" /\ cache.Type # "cluster" THEN "redis-type"
    ELSE ""

validateStorage(storage) ==
    IF storage.Endpoint = "" THEN "storage-endpoint"
    ELSE IF storage.AccessKey = "" THEN "storage-access-key"
    ELSE IF storage.SecretKey = "" THEN "storage-secret-key"
    ELSE IF storage.Bucket = "" THEN "storage-bucket"
    ELSE ""

validateJWT(jwt) ==
    IF jwt.AccessSecretLen = 0 THEN "jwt-access-empty"
    ELSE IF jwt.AccessSecretLen < MinJWTSecretLen THEN "jwt-access-short"
    ELSE IF jwt.RefreshSecretLen = 0 THEN "jwt-refresh-empty"
    ELSE IF jwt.RefreshSecretLen < MinJWTSecretLen THEN "jwt-refresh-short"
    ELSE ""

\* a validator that accepts every desired state
ValidateKubeNovaLenient(sp) == ""

\* "" when the desired state is well-formed, else the first violation
ValidateKubeNova(sp) ==
    IF validateDatabase(sp.Database) # "" THEN validateDatabase(sp.Database)
    ELSE IF validateCache(sp.Cache) # "" THEN validateCache(sp.Cache)
    ELSE IF validateStorage(sp.Storage) # "" THEN validateStorage(sp.Storage)
    ELSE validateJWT(sp.JWT)

(***************************************************************************)
(* The desired-state builders.                                             *)
(***************************************************************************)
\* the per-service settings BuildAllServices passes to buildService
serviceConfig(sp, name) ==
    [ Name |-> name,
      Port |-> CASE name = "portal-api" -> 8810
                 [] name = "portal-rpc" -> 30010
                 [] name = "manager-api" -> 8811
                 [] name = "manager-rpc" -> 30011
                 [] name = "workload-api" -> 8812
                 [] name = "console-api" -> 8818
                 [] OTHER -> 30018,
      MetricsPort |-> 9999,
      ConfigMapName |-> name \o "-config",
      Component |-> IF name \in {"portal-api", "manager-api", "workload-api", "console-api"}
                    THEN "api" ELSE "rpc",
      NeedMinIOCerts |-> name = "portal-rpc" /\ sp.Storage.TLSEnabled,
      MinIOCertSecret |-> IF name = "portal-rpc" /\ sp.Storage.TLSEnabled
                          THEN sp.Storage.TLSSecretName ELSE "",
      NeedCache |-> name \in {"console-api", "console-rpc"} ]

getServiceResources ==
    [ Requests |-> [memory |-> "256Mi", cpu |-> "200m"],
      Limits   |-> [memory |-> "512Mi", cpu |-> "1000m"] ]

getServiceVolumeMounts(cfg) ==
    << [Name |-> "config", MountPath |-> "/app/etc", SubPath |-> "", ReadOnly |-> TRUE] >>
    \o (IF cfg.NeedMinIOCerts /\ cfg.MinIOCertSecret # ""
        THEN << [Name |-> "minio-certs", MountPath |-> "/app/etc/minio-certs",
                 SubPath |-> "", ReadOnly |-> TRUE] >>
        ELSE << >>)
    \o (IF cfg.NeedCache
        THEN << [Name |-> "cache", MountPath |-> "/app/cache", SubPath |-> "",
                 ReadOnly |-> FALSE] >>
        ELSE << >>)

getServiceVolumes(cfg) ==
    << [Name |-> "config", Source |-> <<"configMap", cfg.ConfigMapName>>] >>
    \o (IF cfg.NeedMinIOCerts /\ cfg.MinIOCertSecret # ""
        THEN << [Name |-> "minio-certs", Source |-> <<"secret", cfg.MinIOCertSecret>>] >>
        ELSE << >>)
    \o (IF cfg.NeedCache
        THEN << [Name |-> "cache", Source |-> <<"emptyDir", "1Gi">>] >>
        ELSE << >>)

\* the DeploymentSpec buildDeployment returns for one backend service
buildDeployment(sp, name) ==
    LET cfg == serviceConfig(sp, name) IN
    [ Replicas |-> sp.Services.Replicas[name],
      Containers |-> <<
          [ Name |-> name,
            Image |-> IF sp.Services.Image[name] # "" THEN sp.Services.Image[name]
                      ELSE sp.Registry.Registry \o "/" \o sp.Registry.Organization
                           \o "/" \o name \o ":" \o sp.Registry.Tag,
            ImagePullPolicy |-> sp.Registry.PullPolicy,
            Ports |-> << [Name |-> "", ContainerPort |-> cfg.Port],
                         [Name |-> "metrics", ContainerPort |-> cfg.MetricsPort] >>,
            Env |-> << [Name |-> "TZ", Value |-> "Asia/Shanghai", FieldRef |-> ""],
                       [Name |-> "POD_NAMESPACE", Value |-> "",
                        FieldRef |-> "metadata.namespace"] >>
                    \o sp.Services.Env[name],
            Resources |-> getServiceResources,
            VolumeMounts |-> getServiceVolumeMounts(cfg) ] >>,
      Volumes |-> getServiceVolumes(cfg),
      ServiceAccountName |-> ServiceAccountName,
      ImagePullSecrets |-> sp.Registry.PullSecrets ]

\* the network-expose document of one backend service
buildK8sService(sp, name) ==
    [ Type |-> "ClusterIP",
      Ports |-> << [Name |-> "http", Port |-> serviceConfig(sp, name).Port,
                    NodePort |-> 0] >> ]

\* the services BuildAllServices returns a ServiceResources for
BuildAllServices(sp) == sp.Services.Enabled

\* the web tier serves https on a node port
WebHTTPS(sp) == sp.Web.ExposeType = "nodeport" /\ sp.Web.HTTPSEnabled

getWebPorts(sp) ==
    << [Name |-> "http", ContainerPort |-> 80] >>
    \o (IF WebHTTPS(sp) THEN << [Name |-> "https", ContainerPort |-> 443] >> ELSE << >>)

getWebResourceRequirements ==
    [ Requests |-> [memory |-> "128Mi", cpu |-> "100m"],
      Limits   |-> [memory |-> "512Mi", cpu |-> "500m"] ]

getWebVolumeMounts(sp) ==
    << [Name |-> "cache", MountPath |-> "/var/cache/nginx", SubPath |-> "",
        ReadOnly |-> FALSE],
       [Name |-> "logs", MountPath |-> "/var/log/nginx", SubPath |-> "",
        ReadOnly |-> FALSE],
       [Name |-> "run", MountPath |-> "/var/run", SubPath |-> "", ReadOnly |-> FALSE],
       [Name |-> "nginx-config", MountPath |-> "/etc/nginx/nginx.conf",
        SubPath |-> "nginx.conf", ReadOnly |-> FALSE],
       [Name |-> "nginx-config", MountPath |-> "/etc/nginx/conf.d/default.conf",
        SubPath |-> "default.conf", ReadOnly |-> FALSE] >>
    \o (IF WebHTTPS(sp) /\ sp.Web.HTTPSSecretName # ""
        THEN << [Name |-> "tls-certs", MountPath |-> "/etc/nginx/certs", SubPath |-> "",
                 ReadOnly |-> TRUE] >>
        ELSE << >>)

getWebVolumes(sp) ==
    << [Name |-> "nginx-config",
        Source |-> <<"configMap", IF sp.Web.CustomNginxConfigMap # ""
                                  THEN sp.Web.CustomNginxConfigMap
                                  ELSE NginxConfigMapName>>],
       [Name |-> "cache", Source |-> <<"emptyDir", "1Gi">>],
       [Name |-> "logs", Source |-> <<"emptyDir", "500Mi">>],
       [Name |-> "run", Source |-> <<"emptyDir", "10Mi">>] >>
    \o (IF WebHTTPS(sp) /\ sp.Web.HTTPSSecretName # ""
        THEN << [Name |-> "tls-certs", Source |-> <<"secret", sp.Web.HTTPSSecretName>>] >>
        ELSE << >>)

\* the DeploymentSpec buildWebDeployment returns: it names no service account
buildWebDeployment(sp) ==
    [ Replicas |-> sp.Web.Replicas,
      Containers |-> <<
          [ Name |-> WebName,
            Image |-> IF sp.Web.Image # "" THEN sp.Web.Image
                      ELSE sp.Registry.Registry \o "/" \o sp.Registry.Organization
                           \o "/kube-nova-web:" \o sp.Registry.Tag,
            ImagePullPolicy |-> sp.Registry.PullPolicy,
            Ports |-> getWebPorts(sp),
            Env |-> << [Name |-> "TZ", Value |-> "Asia/Shanghai", FieldRef |-> ""],
                       [Name |-> "NGINX_WORKER_PROCESSES", Value |-> "auto",
                        FieldRef |-> ""],
                       [Name |-> "NGINX_WORKER_CONNECTIONS", Value |-> "4096",
                        FieldRef |-> ""] >>,
            Resources |-> getWebResourceRequirements,
            VolumeMounts |-> getWebVolumeMounts(sp) ] >>,
      Volumes |-> getWebVolumes(sp),
      ServiceAccountName |-> "",
      ImagePullSecrets |-> sp.Registry.PullSecrets ]

\* the network-expose document of the web tier; node port 0 is "to be assigned"
buildWebService(sp) ==
    IF sp.Web.ExposeType = "ingress"
    THEN [ Type |-> "ClusterIP",
           Ports |-> << [Name |-> "http", Port |-> 80, NodePort |-> 0] >> ]
    ELSE [ Type |-> "NodePort",
           Ports |-> << [Name |-> "http", Port |-> 80,
                         NodePort |-> IF sp.Web.HTTPPort > 0 THEN sp.Web.HTTPPort ELSE 0] >>
                     \o (IF sp.Web.HTTPSEnabled
                         THEN << [Name |-> "https", Port |-> 443,
                                  NodePort |-> IF sp.Web.HTTPSPort > 0
                                               THEN sp.Web.HTTPSPort ELSE 0] >>
                         ELSE << >>) ]

\* what BuildWebResources returns besides the workload and its exposure
WantsNginxConfigMap(sp) == sp.Web.CustomNginxConfigMap = ""

WantsIngress(sp) == sp.Web.ExposeType = "ingress" /\ sp.Web.HasIngress

\* the data of the generated nginx configuration: default.conf follows the
\* exposure mode
buildNginxConfigMap(sp) ==
    [ nginxConf |-> "nginx.conf",
      defaultConf |-> IF WebHTTPS(sp) THEN "http+https" ELSE "http" ]

\* the config documents of BuildAllConfigMaps, in its order: their data is fixed text
ConfigMapNames == [i \in 1..Len(services) |-> services[i] \o "-config"]

buildConfigData(name) == "Name: " \o name

\* the payload of BuildSecret that depends on the desired state; the desired
\* states of the model leave the storage proxy of the web tier disabled, so
\* the node address and the node port do not enter it
BuildSecret(sp) ==
    [ MYSQL_HOST |-> sp.Database.Host,
      REDIS_HOST |-> sp.Cache.Host,
      MINIO_ENDPOINT |-> sp.Storage.Endpoint,
      MINIO_USE_SSL |-> sp.Storage.TLSEnabled,
      MINIO_ENDPOINT_PROXY |->
          IF sp.Storage.EndpointProxy # "" THEN sp.Storage.EndpointProxy
          ELSE (IF sp.Storage.TLSEnabled THEN "https" ELSE "http")
               \o "://" \o sp.Storage.Endpoint ]

(***************************************************************************)
(* The diff engine.                                                        *)
(***************************************************************************)
\* replica counts are always set in the documents of the model (no nil pointer)
compareInt32Ptr(a, b) == a = b

\* the map a Go loop "m[e.Name] = e.Value" over the entries with a non-empty
\* value builds: a later entry of a name replaces an earlier one
EnvMap(env) ==
    LET idx == {i \in 1..Len(env) : env[i].Value # ""}
        last(n) == CHOOSE i \in idx : env[i].Name = n /\ \A j \in idx : env[j].Name = n => j <= i
    IN  {<<env[i].Name, env[last(env[i].Name)].Value>> : i \in idx}

compareEnvVars(a, b) ==
    /\ Len(a) = Len(b)
    /\ EnvMap(a) = EnvMap(b)

compareResourceRequirements(a, b) ==
    a.Requests = b.Requests /\ a.Limits = b.Limits

\* aMap[vm.Name] = vm keeps the last mount of each volume name of a; every
\* mount of b is then looked up by its name alone
compareVolumeMounts(a, b) ==
    /\ Len(a) = Len(b)
    /\ \A j \in 1..Len(b) :
          /\ \E i \in 1..Len(a) : a[i].Name = b[j].Name
          /\ LET last == CHOOSE i \in 1..Len(a) :
                            /\ a[i].Name = b[j].Name
                            /\ \A k \in 1..Len(a) : a[k].Name = b[j].Name => k <= i
             IN  a[last].MountPath = b[j].MountPath

compareVolumes(a, b) ==
    /\ Len(a) = Len(b)
    /\ \A j \in 1..Len(b) : \E i \in 1..Len(a) : a[i].Name = b[j].Name

deploymentSpecEqual(existing, desired) ==
    /\ compareInt32Ptr(existing.Replicas, desired.Replicas)
    /\ Len(existing.Containers) = Len(desired.Containers)
    /\ (Len(existing.Containers) > 0 /\ Len(desired.Containers) > 0) =>
          /\ existing.Containers[1].Image = desired.Containers[1].Image
          /\ compareEnvVars(existing.Containers[1].Env, desired.Containers[1].Env)
          /\ compareResourceRequirements(existing.Containers[1].Resources,
                                         desired.Containers[1].Resources)
          /\ compareVolumeMounts(existing.Containers[1].VolumeMounts,
                                 desired.Containers[1].VolumeMounts)
    /\ compareVolumes(existing.Volumes, desired.Volumes)
    /\ existing.ServiceAccountName = desired.ServiceAccountName

(***************************************************************************)
(* The state: the resource store, and each pass with its in-memory root.   *)
(***************************************************************************)
\* the passes that may run on the root
Passes == {"p1", "p2"}

VARIABLES
    root,     \* the stored root object (metadata, desired state, status)
    sa,       \* the ServiceAccount exists
    crb,      \* the ClusterRoleBinding exists
    secret,   \* the stored Secret
    cms,      \* the stored ConfigMaps, by name
    deploy,   \* the stored Deployments, by name
    svc,      \* the stored Services, by name
    ingress,  \* the Ingress exists
    pc,       \* where each pass stands
    kn,       \* the in-memory root of each pass (the kubenova argument)
    sw,       \* the call of updateStatusWithRetry each pass is in, or was last in
    result,   \* what the last pass of each worker returned
    log,      \* what each pass saw and issued
    faults,   \* the store calls that may still fail for a reason outside the model
    fullGens, \* the generations some pass took through all stages and persisted
    quiet,    \* whether the pipeline runs a second time with no external change
              \* since a pass that completed: "changed", "first", "firstDone", "second"
    diff,     \* a call of deploymentSpecEqual: its arguments and what it returned
    ids,      \* the identities (namespace, name) of two roots
    touched,  \* the store objects the passes of each of the two roots wrote
    nodes,    \* the node inventory of the cluster
    bindingMade \* the stored ClusterRoleBinding was created by a pass

vars == <<root, sa, crb, secret, cms, deploy, svc, ingress,
          pc, kn, sw, result, log, faults, fullGens, quiet, diff, ids, touched,
          nodes, bindingMade>>

\* what the passes on the one root of the store leave alone
aside == <<diff, ids, touched, nodes, bindingMade>>

dependents == <<sa, crb, secret, cms, deploy, svc, ingress>>

NoComponent == [State |-> "", ReadyReplicas |-> 0, DesiredReplicas |-> 0]

\* AccessInfo.WebURL as its parts; the zero value is the empty string
NoURL == [Scheme |-> "", Host |-> "", Port |-> 0]

\* the zero value of KubeNovaStatus
EmptyStatus ==
    [ Phase |-> "", Message |-> "", ObservedGeneration |-> 0,
      Validated |-> "", Ready |-> "",
      Components |-> [w \in Workloads |-> NoComponent],
      WebURL |-> NoURL ]

NoRoot ==
    [ exists |-> FALSE, Generation |-> 0, ResourceVersion |-> "", Finalizer |-> FALSE,
      Deleting |-> FALSE, Spec |-> "np", Status |-> EmptyStatus ]

NoDoc == [exists |-> FALSE]

\* ctrl.Result with the returned error ("" is nil)
Res(requeue, after, err) == [Requeue |-> requeue, RequeueAfter |-> after, Err |-> err]

NoResult == [Requeue |-> FALSE, RequeueAfter |-> 0, Err |-> "none-yet"]

\* a pass that ends although the root stays in the store
DoneWithRequeue == Res(TRUE, 0, "")

\* return ctrl.Result{}, nil
Done == Res(FALSE, 0, "")

IdleWriter ==
    [ i |-> 0, attempts |-> 0, conflicts |-> 0, outcome |-> "", cause |-> "",
      ret |-> "", err |-> "",
      latest |-> NoRoot, writtenRV |-> "", writtenStatus |-> EmptyStatus ]

\* what a pass saw and did, for the properties below
NewLog ==
    [ fetched |-> FALSE,         \* the initial fetch found the root
      gen |-> 0,                 \* ... at this generation
      sawFinalizer |-> FALSE,    \* ... carrying the finalizer
      sawDeleting |-> FALSE,     \* ... carrying a deletion timestamp
      retry |-> FALSE,           \* the pass before failed in reconcileServices
                                 \* at the same generation
      failed |-> "",             \* the stage that failed
      failedGen |-> 0,           \* the generation at which reconcileServices failed
      created |-> FALSE,         \* a create was issued for a dependent resource
      updates |-> {},            \* the dependent resources an update was issued for
      deletes |-> {},            \* the resources a delete was issued for
      rewroteConfig |-> FALSE,   \* a write was issued for a config document that
                                 \* had the desired content
      needless |-> {},           \* the workloads updated although they differed
                                 \* from the desired ones in a label only
      scaled |-> {},             \* the workloads updated to another replica count
      unscaled |-> {},           \* the workloads left at a replica count other
                                 \* than the desired one
      read |-> {},               \* the components the aggregator read, with states
      readReady |-> {},          \* ... and those of them with all replicas ready
      counts |-> {},             \* ... and the ready and desired replicas read
      aggregated |-> FALSE,      \* the aggregator set the phase
      bindingCleared |-> FALSE,  \* the binding was found absent or was deleted
      removedFinalizer |-> FALSE,
      changed |-> FALSE,         \* another writer changed the desired state or the
                                 \* metadata of the root after the initial fetch
      addedFinalizer |-> FALSE,
      rbac |-> [saGot |-> "", saCreates |-> 0,    \* what the lookups of
                crbGot |-> "", crbCreates |-> 0], \* reconcileRBAC returned and
                                 \* the creates it issued
      skipped |-> FALSE,         \* the pass took the short-circuit
      after |-> {},              \* the passes in flight at the initial fetch
      newer |-> FALSE,           \* a pass that fetched later persisted status
      overwroteNewer |-> FALSE ] \* ... and this pass persisted status after it

\* the node inventory of the model: one ready node with an internal address
NodeInventories ==
    { << [Ready |-> TRUE, Addresses |-> << [Type |-> "InternalIP", Address |-> "10.0.0.1"] >>] >> }

\* the inventories getNodeIP finds no address in, and the one above: no node,
\* a ready node without addresses, a node with a host name only
AccessInventories ==
    NodeInventories \cup
    { << >>,
      << [Ready |-> TRUE, Addresses |-> << >>] >>,
      << [Ready |-> FALSE, Addresses |-> << [Type |-> "Hostname", Address |-> "node-1"] >>] >> }

\* a root was just created with one of the desired states names; nothing was
\* reconciled yet; budget store calls may fail
InitStore(names, budget) ==
    /\ root \in { [ exists |-> TRUE, Generation |-> 1, ResourceVersion |-> "current",
                    Finalizer |-> FALSE, Deleting |-> FALSE, Spec |-> s,
                    Status |-> EmptyStatus ] : s \in names }
    /\ sa = FALSE
    /\ crb = FALSE
    /\ bindingMade = FALSE
    /\ secret = NoDoc
    /\ cms = [n \in Range(ConfigMapNames) \cup {NginxConfigMapName} |-> NoDoc]
    /\ deploy = [w \in Workloads |-> NoDoc]
    /\ svc = [w \in Workloads |-> NoDoc]
    /\ ingress = FALSE
    /\ pc = [p \in Passes |-> "idle"]
    /\ kn = [p \in Passes |-> NoRoot]
    /\ sw = [p \in Passes |-> IdleWriter]
    /\ result = [p \in Passes |-> NoResult]
    /\ log = [p \in Passes |-> NewLog]
    /\ faults = budget
    /\ fullGens = {}
    /\ quiet = "changed"

\* no call of the diff engine is under examination
NoDiff ==
    [existing |-> NoDoc, desired |-> NoDoc, called |-> FALSE, equal |-> FALSE,
     web |-> FALSE, updated |-> FALSE, latest |-> NoDoc, written |-> NoDoc]

\* the two roots of the fleet, when the one root of the store is examined
NoFleet == [r \in {"r1", "r2"} |-> [Namespace |-> "", Name |-> ""]]

InitWith(names, budget) ==
    /\ InitStore(names, budget)
    /\ diff = NoDiff
    /\ ids = NoFleet
    /\ touched = [r \in DOMAIN NoFleet |-> {}]
    /\ nodes \in NodeInventories

Init == InitWith(SpecNames, MaxFaults)

(***************************************************************************)
(* Reconcile: the entry of a pass.                                         *)
(***************************************************************************)
\* n more store calls fail for a reason outside the model
Faults(n) == n <= faults /\ faults' = faults - n

\* a setStatusPhase that leaves the message as it was
setStatusPhaseNoMessage(k, phase, message) ==
    [k EXCEPT !.Status.Phase = phase,
              !.Status.ObservedGeneration = k.Generation]

\* a setter that leaves the phase of the validation stage in place
setStatusPhaseKeepValidating(k, phase, message) ==
    [k EXCEPT !.Status.Phase = IF @ = "Validating" THEN @ ELSE phase,
              !.Status.Message = message,
              !.Status.ObservedGeneration = k.Generation]

setStatusPhase(k, phase, message) ==
    [k EXCEPT !.Status.Phase = phase,
              !.Status.Message = message,
              !.Status.ObservedGeneration = k.Generation]

\* a Reconcile that never takes the finalizer branch
NeedsFinalizerNever(k) == FALSE

\* !controllerutil.ContainsFinalizer(kubenova, kubenovaFinalizer)
NeedsFinalizer(k) == ~k.Finalizer

\* a Reconcile that never takes the deletion branch
IsDeletingNever(k) == FALSE

\* !kubenova.DeletionTimestamp.IsZero()
IsDeleting(k) == k.Deleting

\* a Reconcile that never takes the short-circuit
AlreadyProcessedNever(k) == FALSE

\* the short-circuit of a root that was processed and did not change
AlreadyProcessed(k) ==
    k.Status.ObservedGeneration = k.Generation /\ k.Status.Phase = "Ready"

\* Version tokens are opaque and the store only tests them for equality: a
\* copy of the root carries "current" while its token is the stored root's,
\* and "stale" once the root was written after the copy was read
Age(k) == IF k.ResourceVersion = "current" THEN [k EXCEPT !.ResourceVersion = "stale"] ELSE k

\* the copies the passes hold, after a write of the root
AgedKn == [q \in Passes |-> Age(kn[q])]

AgedSw ==
    [q \in Passes |->
        [sw[q] EXCEPT !.latest = Age(@),
                      !.writtenRV = IF @ = "current" THEN "stale" ELSE @]]

\* what is left of a pass's log once it returned at generation gen
Summary(l, gen) ==
    [NewLog EXCEPT !.fetched = l.fetched,
                   !.sawFinalizer = l.sawFinalizer,
                   !.sawDeleting = l.sawDeleting,
                   !.failedGen = IF l.failed = "services" THEN gen ELSE 0,
                   !.addedFinalizer = l.addedFinalizer,
                   !.skipped = l.skipped,
                   !.bindingCleared = l.bindingCleared,
                   !.removedFinalizer = l.removedFinalizer]

\* a pass ends: it returns r, its in-memory root is dropped; lg is the log of
\* all passes at that point, wrote tells that the step wrote the root
Return(p, r, lg, wrote) ==
    /\ pc' = [pc EXCEPT ![p] = "idle"]
    /\ result' = [result EXCEPT ![p] = r]
    /\ kn' = [(IF wrote THEN AgedKn ELSE kn) EXCEPT ![p] = NoRoot]
    /\ sw' = [(IF wrote THEN AgedSw ELSE sw) EXCEPT ![p] = IdleWriter]
    /\ log' = [lg EXCEPT ![p] = Summary(lg[p], kn[p].Generation)]

\* a call of updateStatusWithRetry starts; ret names the caller
CallWriter(p, ret, err) ==
    /\ pc' = [pc EXCEPT ![p] = "swGet"]
    /\ sw' = [sw EXCEPT ![p] = [IdleWriter EXCEPT !.ret = ret, !.err = err]]

\* a stage failed: set the failure phase and persist status, then return the
\* error; l is the log of the pass so far, n the store calls that failed
FailStage(p, k, l, stage, n) ==
    /\ Faults(n)
    /\ kn' = [kn EXCEPT ![p] = setStatusPhase(k, "Failed", stage)]
    /\ CallWriter(p, "failed", stage)
    /\ log' = [log EXCEPT ![p] = [l EXCEPT !.failed = stage]]
    /\ UNCHANGED result

\* a stage succeeded: go on with the next one
NextStage(p, k, l, stage, next) ==
    /\ Faults(0)
    /\ kn' = [kn EXCEPT ![p] = k]
    /\ pc' = [pc EXCEPT ![p] = next]
    /\ log' = [log EXCEPT ![p] = l]
    /\ UNCHANGED <<sw, result>>

\* the log of a pass that starts on the fetched root
StartLog(p) ==
    [NewLog EXCEPT !.fetched = TRUE,
                   !.gen = root.Generation,
                   !.sawFinalizer = root.Finalizer,
                   !.sawDeleting = root.Deleting,
                   !.retry = (log[p].failedGen = root.Generation),
                   !.after = {q \in Passes \ {p} : pc[q] # "idle"}]

\* p fetched anew: it is no longer an earlier pass to any other
Refetched(p, l) ==
    [q \in Passes |-> IF q = p THEN l
                      ELSE [log[q] EXCEPT !.after = log[q].after \ {p}]]

Reconcile(p) ==
    /\ pc[p] = "idle"
    /\ \/ \* r.Get fails with an error other than not-found
          /\ Faults(1)
          /\ Return(p, Res(FALSE, 0, "get"), [log EXCEPT ![p] = NewLog], FALSE)
          /\ UNCHANGED quiet
       \/ \* the root is gone
          /\ ~root.exists
          /\ Return(p, Done, [log EXCEPT ![p] = NewLog], FALSE)
          /\ UNCHANGED <<faults, quiet>>
       \/ \* the deletion lifecycle: reconcileDelete sets the phase and persists it
          /\ root.exists /\ IsDeleting(root)
          /\ kn' = [kn EXCEPT ![p] = setStatusPhase(root, "Deleting", "deleting")]
          /\ CallWriter(p, "delete", "")
          /\ log' = Refetched(p, StartLog(p))
          /\ result' = [result EXCEPT ![p] = NoResult]
          /\ UNCHANGED <<faults, quiet>>
       \/ \* the finalizer is absent: add it in memory, then persist the root
          /\ root.exists /\ ~IsDeleting(root) /\ NeedsFinalizer(root)
          /\ kn' = [kn EXCEPT ![p] = [root EXCEPT !.Finalizer = TRUE]]
          /\ pc' = [pc EXCEPT ![p] = "addFinalizer"]
          /\ log' = Refetched(p, StartLog(p))
          /\ result' = [result EXCEPT ![p] = NoResult]
          /\ UNCHANGED <<sw, faults, quiet>>
       \/ \* nothing changed since the root became Ready
          /\ root.exists /\ ~IsDeleting(root) /\ ~NeedsFinalizer(root)
          /\ AlreadyProcessed(root)
          /\ Return(p, Res(FALSE, IdleSeconds, ""),
                    Refetched(p, [StartLog(p) EXCEPT !.skipped = TRUE]), FALSE)
          /\ UNCHANGED <<faults, quiet>>
       \/ \* the pipeline starts
          /\ root.exists /\ ~IsDeleting(root) /\ ~NeedsFinalizer(root)
          /\ ~AlreadyProcessed(root)
          /\ kn' = [kn EXCEPT ![p] = root]
          /\ pc' = [pc EXCEPT ![p] = "validate"]
          /\ log' = Refetched(p, StartLog(p))
          /\ result' = [result EXCEPT ![p] = NoResult]
          /\ quiet' = IF quiet = "firstDone" THEN "second" ELSE "first"
          /\ UNCHANGED <<sw, faults>>
    /\ UNCHANGED <<root, dependents, fullGens, aside>>

(***************************************************************************)
(* Writes of the root's main document (r.Update).                          *)
(***************************************************************************)
\* the store rejects a write that carries a stale version token
Conflicts(k) == root.exists /\ k.ResourceVersion # root.ResourceVersion

\* the stored root after r.Update(ctx, k) succeeded: metadata and desired state
\* are taken from k, status is not; a root that is being deleted disappears
\* with its last finalizer
Updated(k) ==
    IF root.Deleting /\ ~k.Finalizer
    THEN NoRoot
    ELSE [root EXCEPT !.Finalizer = k.Finalizer,
                      !.Spec = k.Spec,
                      !.Generation = IF k.Spec # root.Spec THEN @ + 1 ELSE @,
                      !.ResourceVersion = "current"]

\* r.Update of the root with the finalizer added
addFinalizer(p) ==
    /\ pc[p] = "addFinalizer"
    /\ \/ \* the write fails: a version conflict, a missing root, a store error
          /\ IF ~root.exists \/ Conflicts(kn[p]) THEN Faults(0) ELSE Faults(1)
          /\ Return(p, Res(FALSE, 0, "update"), log, FALSE)
          /\ UNCHANGED root
       \/ /\ root.exists /\ ~Conflicts(kn[p])
          /\ Faults(0)
          /\ root' = Updated(kn[p])
          /\ Return(p, Res(TRUE, 0, ""), [log EXCEPT ![p].addedFinalizer = TRUE], TRUE)
    /\ UNCHANGED <<dependents, fullGens, quiet, aside>>

(***************************************************************************)
(* updateStatusWithRetry.                                                  *)
(***************************************************************************)
\* a writer that tries again after any error
ShouldRetryAlways(isConflict, i) == i < 2

\* errors.IsConflict(err) && i < 2
ShouldRetry(isConflict, i) == isConflict /\ i < 2

\* a writer that copies back the status alone
CopyBackStatusOnly(k, latest) == [k EXCEPT !.Status = latest.Status]

\* kubenova.Status = latest.Status; kubenova.ResourceVersion = latest.ResourceVersion
CopyBack(k, latest) ==
    [k EXCEPT !.Status = latest.Status, !.ResourceVersion = latest.ResourceVersion]

\* the call comes to its return statement
WriterReturn(p, w, outcome, wrote) ==
    /\ sw' = [(IF wrote THEN AgedSw ELSE sw) EXCEPT
                 ![p] = [w EXCEPT !.outcome = outcome, !.latest = NoRoot]]
    /\ pc' = [pc EXCEPT ![p] = "swDone"]

\* one iteration's r.Get of the latest root, with the caller's status copied on;
\* past the last iteration the call returns its own error
\* a writer that stamps the status with the generation it re-fetched
CarryStatusObserved(latest, k) ==
    [latest EXCEPT !.Status = [k.Status EXCEPT !.ObservedGeneration = latest.Generation]]

\* latest.Status = kubenova.Status: the document the status write is called with
CarryStatus(latest, k) == [latest EXCEPT !.Status = k.Status]

updateStatusGet(p) ==
    /\ pc[p] = "swGet"
    /\ IF sw[p].i >= MaxAttempts
       THEN WriterReturn(p, [sw[p] EXCEPT !.cause = "exhausted"], "err", FALSE) /\ Faults(0)
       ELSE \/ \* the re-fetch fails: the root is gone, or a store error
               /\ IF ~root.exists THEN Faults(0) ELSE Faults(1)
               /\ WriterReturn(p, [sw[p] EXCEPT !.cause = "get"], "err", FALSE)
            \/ /\ root.exists
               /\ Faults(0)
               /\ sw' = [sw EXCEPT ![p].latest = CarryStatus(root, kn[p])]
               /\ pc' = [pc EXCEPT ![p] = "swUpdate"]
    /\ UNCHANGED <<root, dependents, kn, log, result, fullGens, quiet, aside>>

\* one iteration's r.Status().Update(ctx, latest)
updateStatusPut(p) ==
    LET w == [sw[p] EXCEPT !.attempts = @ + 1]
        isConflict == Conflicts(w.latest)
    IN
    /\ pc[p] = "swUpdate"
    /\ \/ \* a version conflict: the next iteration if attempts remain, else
          \* the error is returned
          /\ isConflict
          /\ IF ShouldRetry(TRUE, w.i)
             THEN /\ sw' = [sw EXCEPT ![p] = [w EXCEPT !.i = @ + 1, !.conflicts = @ + 1]]
                  /\ pc' = [pc EXCEPT ![p] = "swGet"]
             ELSE WriterReturn(p, [w EXCEPT !.conflicts = @ + 1, !.cause = "conflict"],
                               "err", FALSE)
          /\ UNCHANGED <<root, kn, log, faults, fullGens, quiet>>
       \/ \* any other error (the root is gone, or a store error) is returned
          /\ ~isConflict
          /\ IF ~root.exists THEN Faults(0) ELSE Faults(1)
          /\ IF ShouldRetry(FALSE, w.i)
             THEN /\ sw' = [sw EXCEPT ![p] = [w EXCEPT !.i = @ + 1]]
                  /\ pc' = [pc EXCEPT ![p] = "swGet"]
             ELSE WriterReturn(p, [w EXCEPT !.cause = "update"], "err", FALSE)
          /\ UNCHANGED <<root, kn, log, fullGens, quiet>>
       \/ \* the write succeeds
          /\ root.exists /\ ~isConflict
          /\ Faults(0)
          /\ root' = [root EXCEPT !.Status = w.latest.Status]
          /\ kn' = [AgedKn EXCEPT ![p] = CopyBack(AgedKn[p], root')]
          /\ WriterReturn(p, [w EXCEPT !.writtenRV = root'.ResourceVersion,
                                       !.writtenStatus = root'.Status], "ok", TRUE)
          /\ log' = [q \in Passes |->
                        IF q = p THEN [log[p] EXCEPT !.overwroteNewer =
                                              log[p].newer /\ root'.Status # root.Status]
                        ELSE IF q \in log[p].after THEN [log[q] EXCEPT !.newer = TRUE]
                        ELSE log[q]]
          /\ fullGens' = IF w.ret = "aggregate"
                         THEN fullGens \cup {kn[p].Generation} ELSE fullGens
          /\ quiet' = IF w.ret = "aggregate" /\ quiet \in {"first", "second"}
                      THEN "firstDone" ELSE quiet
    /\ UNCHANGED <<dependents, result, aside>>

\* a Reconcile that returns the error of checkComponentStatus
AggregateResultStrict(outcome) ==
    IF outcome = "ok" THEN Res(FALSE, IdleSeconds, "")
    ELSE Res(FALSE, ErrorSeconds, "status")

\* what Reconcile returns after checkComponentStatus returned
AggregateResult(outcome) ==
    IF outcome = "ok" THEN Res(FALSE, IdleSeconds, "")
    ELSE Res(FALSE, ShortSeconds, "")

\* the caller goes on after the call: a failed stage returns its error, the
\* aggregation stage returns the writer's error (Reconcile then asks for a
\* short requeue), reconcileDelete ignores it and goes on
updateStatusReturn(p) ==
    /\ pc[p] = "swDone"
    /\ CASE sw[p].ret = "failed" ->
                Return(p, Res(FALSE, ErrorSeconds, sw[p].err), log, FALSE)
         [] sw[p].ret = "aggregate" ->
                Return(p, AggregateResult(sw[p].outcome), log, FALSE)
         [] OTHER ->
                /\ pc' = [pc EXCEPT ![p] = "deleteBinding"]
                /\ sw' = [sw EXCEPT ![p] = IdleWriter]
                /\ UNCHANGED <<kn, log, result>>
    /\ UNCHANGED <<root, dependents, faults, fullGens, quiet, aside>>

(***************************************************************************)
(* The pipeline stages 1 to 5.                                             *)
(***************************************************************************)
TheSpec(k) == SpecTable[k.Spec]

reconcileValidation(p) ==
    LET k == setStatusPhase(kn[p], "Validating", "validating")
        v == ValidateKubeNova(TheSpec(k))
    IN
    /\ pc[p] = "validate"
    /\ IF v # ""
       THEN FailStage(p, [k EXCEPT !.Status.Validated = "False"], log[p], "validation", 0)
       ELSE NextStage(p, [k EXCEPT !.Status.Validated = "True"], log[p],
                      "validation", "namespace")
    /\ UNCHANGED <<root, dependents, fullGens, quiet, aside>>

\* r.Get of the namespace: found, not found, or another error
reconcileNamespace(p) ==
    /\ pc[p] = "namespace"
    /\ \E got \in {"found", "notfound", "error"} :
          IF got = "found"
          THEN NextStage(p, kn[p], log[p], "namespace", "rbac")
          ELSE FailStage(p, kn[p], log[p], "namespace", 1)
    /\ UNCHANGED <<root, dependents, fullGens, quiet, aside>>

\* the store calls of reconcileRBAC that can fail
RBACOutcomes == {"saGetErr", "saCreateErr", "crbGetErr", "crbCreateErr", "ok"}

\* a stage that creates a document whenever its lookup returned no error
NeedsCreateAlways(got) == got # "error"

\* errors.IsNotFound(err) after r.Get: the document is created
NeedsCreate(got) == got = "notfound"

\* what r.Get returns for a document when the call itself does not fail
Lookup(exists) == IF exists THEN "found" ELSE "notfound"

reconcileRBAC(p) ==
    LET saN == IF NeedsCreate(Lookup(sa)) THEN 1 ELSE 0
        crbN == IF NeedsCreate(Lookup(crb)) THEN 1 ELSE 0
        withSA == [log[p] EXCEPT !.created = @ \/ saN > 0,
                                 !.rbac.saGot = Lookup(sa),
                                 !.rbac.saCreates = saN]
        withCRB == [withSA EXCEPT !.created = @ \/ crbN > 0,
                                  !.rbac.crbGot = Lookup(crb),
                                  !.rbac.crbCreates = crbN]
    IN
    /\ pc[p] = "rbac"
    /\ \E o \in RBACOutcomes :
          CASE o = "saGetErr" ->
                  /\ FailStage(p, kn[p], [log[p] EXCEPT !.rbac.saGot = "error"], "rbac", 1)
                  /\ UNCHANGED <<sa, crb, bindingMade>>
            [] o = "saCreateErr" ->
                  /\ saN > 0
                  /\ FailStage(p, kn[p], [log[p] EXCEPT !.rbac.saGot = Lookup(sa),
                                                        !.rbac.saCreates = saN],
                               "rbac", 1)
                  /\ UNCHANGED <<sa, crb, bindingMade>>
            [] o = "crbGetErr" ->
                  /\ sa' = TRUE
                  /\ FailStage(p, kn[p], [withSA EXCEPT !.rbac.crbGot = "error"], "rbac", 1)
                  /\ UNCHANGED <<crb, bindingMade>>
            [] o = "crbCreateErr" ->
                  /\ crbN > 0
                  /\ sa' = TRUE
                  /\ FailStage(p, kn[p], [withSA EXCEPT !.rbac.crbGot = Lookup(crb),
                                                        !.rbac.crbCreates = crbN],
                               "rbac", 1)
                  /\ UNCHANGED <<crb, bindingMade>>
            [] OTHER ->
                  /\ sa' = TRUE
                  /\ crb' = TRUE
                  /\ bindingMade' = (bindingMade \/ crbN > 0)
                  /\ NextStage(p, kn[p], withCRB, "rbac", "secret")
    /\ UNCHANGED <<root, secret, cms, deploy, svc, ingress, fullGens, quiet,
                   diff, ids, touched, nodes>>

\* a comparison that never finds two payloads equal
DataEqualNever(a, b) == FALSE

\* reflect.DeepEqual of two data payloads
DataEqual(a, b) == a = b

\* a create-or-update that writes the desired document over the observed one
EnsureDataReplace(doc, data) ==
    IF ~doc.exists \/ ~DataEqual(doc.Data, data)
    THEN [exists |-> TRUE, Data |-> data, Labels |-> {}, Owner |-> TRUE]
    ELSE doc

\* create-or-update of a document that carries a data payload: the stored
\* document after the step
EnsureData(doc, data) ==
    IF ~doc.exists THEN [exists |-> TRUE, Data |-> data, Labels |-> {}, Owner |-> TRUE]
    ELSE IF ~DataEqual(doc.Data, data) THEN [doc EXCEPT !.Data = data]
    ELSE doc

\* whether that step writes, and which write it issues
DataWrite(doc, data) ==
    IF ~doc.exists THEN "create"
    ELSE IF ~DataEqual(doc.Data, data) THEN "update"
    ELSE ""

\* the log with the write op ("create", "update" or none) of a document added
Logged(l, op, id) ==
    [l EXCEPT !.created = @ \/ op = "create",
              !.updates = IF op = "update" THEN @ \cup {id} ELSE @]

reconcileSecret(p) ==
    LET desired == BuildSecret(TheSpec(kn[p]))
        op == DataWrite(secret, desired)
    IN
    /\ pc[p] = "secret"
    /\ \E o \in {"getErr", "writeErr", "ok"} :
          CASE o = "getErr" ->
                  /\ FailStage(p, kn[p], log[p], "secret", 1)
                  /\ UNCHANGED secret
            [] o = "writeErr" ->
                  /\ op # ""
                  /\ FailStage(p, kn[p], log[p], "secret", 1)
                  /\ UNCHANGED secret
            [] OTHER ->
                  /\ secret' = EnsureData(secret, desired)
                  /\ NextStage(p, kn[p], Logged(log[p], op, <<"secret", SecretName>>),
                               "secret", "config")
    /\ UNCHANGED <<root, sa, crb, cms, deploy, svc, ingress, fullGens, quiet, aside>>

\* the log after the create-or-update steps of the config documents names
LoggedAll(l, names) ==
    [l EXCEPT !.created = @ \/ \E m \in names :
                                  DataWrite(cms[m], buildConfigData(m)) = "create",
              !.updates = @ \cup {<<"cm", n>> : n \in {m \in names :
                                     DataWrite(cms[m], buildConfigData(m)) = "update"}},
              !.rewroteConfig = @ \/ \E m \in names :
                                  /\ cms[m].exists /\ cms[m].Data = buildConfigData(m)
                                  /\ DataWrite(cms[m], buildConfigData(m)) # ""]

\* j documents are processed in the order of BuildAllConfigMaps; the stage
\* fails at the next one, if there is one
reconcileConfigMaps(p) ==
    /\ pc[p] = "config"
    /\ \E j \in 0..Len(ConfigMapNames) :
          LET done == {ConfigMapNames[i] : i \in 1..j}
              l == LoggedAll(log[p], done)
          IN
          /\ cms' = [n \in DOMAIN cms |->
                        IF n \in done THEN EnsureData(cms[n], buildConfigData(n))
                        ELSE cms[n]]
          /\ IF j = Len(ConfigMapNames)
             THEN NextStage(p, kn[p], l, "config", "services")
             ELSE \E o \in {"getErr", "writeErr"} :
                     /\ o = "writeErr" =>
                           DataWrite(cms[ConfigMapNames[j + 1]],
                                     buildConfigData(ConfigMapNames[j + 1])) # ""
                     /\ FailStage(p, kn[p], l, "config", 1)
    /\ UNCHANGED <<root, sa, crb, secret, deploy, svc, ingress, fullGens, quiet, aside>>

(***************************************************************************)
(* Stages 6 and 7: workloads and their exposure.                           *)
(***************************************************************************)
\* the document the store holds after r.Create of a workload
NewDeploy(desired) ==
    [exists |-> TRUE, Spec |-> desired, Labels |-> {}, Owner |-> TRUE]

\* the fields the update path copies onto the re-fetched document; the web
\* tier's update path leaves the identity reference alone
Splice(latest, desired, withIdentity) ==
    [latest EXCEPT !.Replicas = desired.Replicas,
                   !.Containers = desired.Containers,
                   !.Volumes = desired.Volumes,
                   !.ServiceAccountName =
                        IF withIdentity THEN desired.ServiceAccountName ELSE @,
                   !.ImagePullSecrets = desired.ImagePullSecrets]

\* the document r.Update is called with: the re-fetched one, spliced
UpdateDeploy(latest, desired, withIdentity) ==
    [latest EXCEPT !.Spec = Splice(latest.Spec, desired, withIdentity)]

\* which write the create-or-update step of a workload issues
DeployWrite(doc, desired) ==
    IF ~doc.exists THEN "create"
    ELSE IF ~deploymentSpecEqual(doc.Spec, desired) THEN "update"
    ELSE ""

\* the stored workload after that step
EnsureDeploy(doc, desired, withIdentity) ==
    IF ~doc.exists THEN NewDeploy(desired)
    ELSE IF ~deploymentSpecEqual(doc.Spec, desired)
         THEN UpdateDeploy(doc, desired, withIdentity)
    ELSE doc

\* the store assigns a node port to every port of a NodePort service that asks
\* for none
Assigned(doc) ==
    [doc EXCEPT !.Ports = [i \in 1..Len(doc.Ports) |->
        IF doc.Type = "NodePort" /\ doc.Ports[i].NodePort = 0
        THEN [doc.Ports[i] EXCEPT !.NodePort = 31000 + i]
        ELSE doc.Ports[i]]]

\* a step that writes the desired document over a network-expose document
EnsureServiceSync(doc, desired) ==
    IF ~doc.exists THEN [exists |-> TRUE, Spec |-> Assigned(desired), Owner |-> TRUE]
    ELSE [doc EXCEPT !.Spec = desired]

\* network-expose documents are created, never updated
EnsureService(doc, desired) ==
    IF ~doc.exists THEN [exists |-> TRUE, Spec |-> Assigned(desired), Owner |-> TRUE]
    ELSE doc

\* observed and desired agree on every field the diff engine is to compare
SameComparisonFields(o, d) ==
    /\ o.Replicas = d.Replicas
    /\ Len(o.Containers) = Len(d.Containers)
    /\ Len(o.Containers) > 0 =>
          /\ o.Containers[1].Image = d.Containers[1].Image
          /\ o.Containers[1].Env = d.Containers[1].Env
          /\ o.Containers[1].Resources = d.Containers[1].Resources
          /\ o.Containers[1].VolumeMounts = d.Containers[1].VolumeMounts
    /\ o.Volumes = d.Volumes
    /\ o.ServiceAccountName = d.ServiceAccountName

\* the log after the workload step of w (withIdentity as in Splice): what was
\* written, set against what was observed
LoggedDeploy(l, w, desired, withIdentity) ==
    LET op == DeployWrite(deploy[w], desired)
        differs == deploy[w].exists /\ deploy[w].Spec.Replicas # desired.Replicas
        stored == EnsureDeploy(deploy[w], desired, withIdentity)
        l1 == Logged(l, op, <<"deploy", w>>)
    IN
    [l1 EXCEPT !.needless = IF /\ deploy[w].exists
                               /\ deploy[w].Labels # {}
                               /\ SameComparisonFields(deploy[w].Spec, desired)
                               /\ op = "update"
                            THEN @ \cup {w} ELSE @,
               !.scaled = IF differs /\ op = "update" THEN @ \cup {w} ELSE @,
               !.unscaled = IF differs /\ stored.Spec.Replicas # desired.Replicas
                            THEN @ \cup {w} ELSE @]

LoggedService(l, w) ==
    Logged(l, IF svc[w].exists THEN "" ELSE "create", <<"svc", w>>)

RECURSIVE LoggedServices(_, _, _, _)
\* the log after the steps of the services in todo (both steps of each that is
\* not in half, the workload step alone of each that is)
LoggedServices(l, sp, todo, half) ==
    IF todo = {} THEN l
    ELSE LET w == CHOOSE x \in todo : TRUE
             l1 == LoggedDeploy(l, w, buildDeployment(sp, w), TRUE)
             l2 == IF w \in half THEN l1 ELSE LoggedService(l1, w)
         IN  LoggedServices(l2, sp, todo \ {w}, half)

\* a stage that removes the documents of a service the desired state leaves out
Pruned(doc, wanted) == IF wanted THEN doc ELSE NoDoc

\* the stage ranges over the services BuildAllServices returns: the documents
\* of any other service are not looked up, and those of a service it did not
\* get to are as they were
Skipped(doc, wanted) == doc

\* the services in done are processed (Go ranges over the map in any order);
\* the stage fails at another one, if there is one, before or after its
\* workload step
reconcileServices(p) ==
    LET k == setStatusPhase(kn[p], "Creating", "creating")
        sp == TheSpec(k)
        enabled == BuildAllServices(sp)
    IN
    /\ pc[p] = "services"
    /\ \E done \in SUBSET enabled :
          \E half \in SUBSET (enabled \ done) :
             /\ Cardinality(half) <= 1
             /\ deploy' = [w \in Workloads |->
                    IF w \in done \cup half
                    THEN EnsureDeploy(deploy[w], buildDeployment(sp, w), TRUE)
                    ELSE Skipped(deploy[w], w \in enabled \cup {WebName})]
             /\ svc' = [w \in Workloads |->
                    IF w \in done THEN EnsureService(svc[w], buildK8sService(sp, w))
                    ELSE Skipped(svc[w], w \in enabled \cup {WebName})]
             /\ IF done = enabled
                THEN NextStage(p, k, LoggedServices(log[p], sp, done, {}),
                               "services", "web")
                ELSE FailStage(p, k, LoggedServices(log[p], sp, done \cup half, half),
                               "services", 1)
    /\ UNCHANGED <<root, sa, crb, secret, cms, ingress, fullGens, quiet, aside>>

\* the steps of reconcileWeb, in order; a step that issues no store call
\* cannot fail
WebSteps(sp) ==
    (IF WantsNginxConfigMap(sp) THEN <<"cm">> ELSE << >>)
    \o <<"deploy", "svc">>
    \o (IF WantsIngress(sp) THEN <<"ingress">> ELSE << >>)

reconcileWeb(p) ==
    LET sp == TheSpec(kn[p])
        steps == WebSteps(sp)
    IN
    /\ pc[p] = "web"
    /\ \E j \in 0..Len(steps) :
          LET done == {steps[i] : i \in 1..j}
              l1 == IF "cm" \in done
                    THEN Logged(log[p], DataWrite(cms[NginxConfigMapName],
                                                  buildNginxConfigMap(sp)),
                                <<"cm", NginxConfigMapName>>)
                    ELSE log[p]
              l2 == IF "deploy" \in done
                    THEN LoggedDeploy(l1, WebName, buildWebDeployment(sp), FALSE)
                    ELSE l1
              l3 == IF "svc" \in done THEN LoggedService(l2, WebName) ELSE l2
              l4 == IF "ingress" \in done
                    THEN Logged(l3, IF ingress THEN "" ELSE "create", <<"ingress", WebName>>)
                    ELSE l3
          IN
          /\ cms' = IF "cm" \in done
                    THEN [cms EXCEPT ![NginxConfigMapName] =
                              EnsureData(@, buildNginxConfigMap(sp))]
                    ELSE cms
          /\ deploy' = IF "deploy" \in done
                       THEN [deploy EXCEPT ![WebName] =
                                 EnsureDeploy(@, buildWebDeployment(sp), FALSE)]
                       ELSE deploy
          /\ svc' = IF "svc" \in done
                    THEN [svc EXCEPT ![WebName] = EnsureService(@, buildWebService(sp))]
                    ELSE svc
          /\ ingress' = (ingress \/ "ingress" \in done)
          /\ IF j = Len(steps)
             THEN NextStage(p, kn[p], l4, "web", "aggregate")
             ELSE FailStage(p, kn[p], l4, "web", 1)
    /\ UNCHANGED <<root, sa, crb, secret, fullGens, quiet, aside>>

(***************************************************************************)
(* Stage 8: the status aggregator.                                         *)
(***************************************************************************)
\* a backend component that is never reported Ready
componentStateNever(ready, desired) ==
    IF ready > 0 THEN "Running" ELSE "Pending"

\* the state of a backend component
componentState(ready, desired) ==
    IF ready = desired THEN "Ready"
    ELSE IF ready > 0 THEN "Running"
    ELSE "Pending"

\* the state of the web tier
webState(ready, desired) ==
    IF ready = desired THEN "Ready" ELSE "Running"

\* the entry the aggregator records for a workload it read with ready replicas
\* reported ready
componentEntry(w, doc, ready) ==
    [ State |-> IF w = WebName THEN webState(ready, doc.Spec.Replicas)
                ELSE componentState(ready, doc.Spec.Replicas),
      ReadyReplicas |-> ready,
      DesiredReplicas |-> doc.Spec.Replicas ]

\* an aggregation that is content with one ready component
allReadyAny(entries) == \E e \in entries : e.State = "Ready"

\* allReady after the loops: no component that was read is short of Ready
allReady(entries) == \A e \in entries : e.State = "Ready"

HasAddress(n, types) == \E i \in 1..Len(n.Addresses) : n.Addresses[i].Type \in types

FirstAddress(n, types) ==
    LET i == CHOOSE i \in 1..Len(n.Addresses) :
                 /\ n.Addresses[i].Type \in types
                 /\ \A j \in 1..(i - 1) : n.Addresses[j].Type \notin types
    IN  n.Addresses[i].Address

\* the address of the first ready node that has one (external before
\* internal), else the first address of the first node, else ""
getNodeIP(ns) ==
    LET usable == {i \in 1..Len(ns) :
                      ns[i].Ready /\ HasAddress(ns[i], {"ExternalIP", "InternalIP"})}
    IN
    IF Len(ns) = 0 THEN ""
    ELSE IF usable # {}
         THEN LET i == CHOOSE i \in usable : \A j \in usable : i <= j IN
              IF HasAddress(ns[i], {"ExternalIP"})
              THEN FirstAddress(ns[i], {"ExternalIP"})
              ELSE FirstAddress(ns[i], {"InternalIP"})
    ELSE IF HasAddress(ns[1], {"ExternalIP", "InternalIP"})
         THEN FirstAddress(ns[1], {"ExternalIP", "InternalIP"})
    ELSE ""

\* the last assigned node port of the given name, 0 if there is none
PortOf(ports, name) ==
    LET idx == {i \in 1..Len(ports) : ports[i].Name = name /\ ports[i].NodePort > 0} IN
    IF idx = {} THEN 0
    ELSE ports[CHOOSE i \in idx : \A j \in idx : j <= i].NodePort

\* a web address that is built from whatever getNodeIP returned
webURLBare(sp, old, gotSvc, nodeIP) ==
    IF sp.Web.ExposeType = "nodeport" /\ gotSvc
    THEN [Scheme |-> "http", Host |-> nodeIP,
          Port |-> PortOf(svc[WebName].Spec.Ports, "http")]
    ELSE old

\* the web address of updateAccessInfo; gotSvc: the read of the web service
\* succeeded, nodeIP: what getNodeIP returned
webURL(sp, old, gotSvc, nodeIP) ==
    IF sp.Web.ExposeType = "ingress" /\ sp.Web.HasIngress
    THEN [Scheme |-> IF sp.Web.IngressTLS THEN "https" ELSE "http",
          Host |-> sp.Web.IngressHost, Port |-> 0]
    ELSE IF sp.Web.ExposeType = "nodeport"
    THEN IF gotSvc
         THEN LET httpPort == PortOf(svc[WebName].Spec.Ports, "http")
                  httpsPort == PortOf(svc[WebName].Spec.Ports, "https")
                  host == IF nodeIP # "" THEN nodeIP ELSE "<NODE-IP>"
              IN  IF httpsPort > 0 THEN [Scheme |-> "https", Host |-> host, Port |-> httpsPort]
                  ELSE IF httpPort > 0
                       THEN [Scheme |-> "http", Host |-> host, Port |-> httpPort]
                  ELSE [Scheme |-> "", Host |-> "NodePort (pending)", Port |-> 0]
         ELSE [Scheme |-> "", Host |-> "Service (creating)", Port |-> 0]
    ELSE old

\* what the workload controller may report for the workloads in got: any
\* number of ready replicas up to the desired one
Readiness(got) ==
    LET counts == {deploy[w].Spec.Replicas : w \in got} \cup {0}
        most == CHOOSE m \in counts : \A c \in counts : c <= m
    IN  {r \in [got -> 0..most] : \A w \in got : r[w] <= deploy[w].Spec.Replicas}

\* the aggregation when the reads of the workloads in got succeed and report
\* ready replicas, every other read fails or finds nothing, the read of the
\* web service gives gotSvc and getNodeIP returns nodeIP; then the phase is
\* set and status is persisted
Aggregate(p, got, ready, gotSvc, nodeIP) ==
    LET entries == [w \in got |-> componentEntry(w, deploy[w], ready[w])]
        k1 == [kn[p] EXCEPT
                  !.Status.Components =
                      [w \in Workloads |-> IF w \in got THEN entries[w] ELSE @[w]],
                  !.Status.WebURL = webURL(TheSpec(kn[p]), @, gotSvc, nodeIP)]
        isReady == allReady({entries[w] : w \in got})
        k2 == [setStatusPhase(k1, IF isReady THEN "Ready" ELSE "Creating",
                              IF isReady THEN "all-ready" ELSE "not-ready")
                  EXCEPT !.Status.Ready = IF isReady THEN "True" ELSE "False"]
    IN
    /\ kn' = [kn EXCEPT ![p] = k2]
    /\ log' = [log EXCEPT ![p].read = {<<w, entries[w].State>> : w \in got},
                          ![p].readReady =
                              {w \in got : ready[w] = deploy[w].Spec.Replicas},
                          ![p].counts =
                              {<<w, ready[w], deploy[w].Spec.Replicas>> : w \in got},
                          ![p].aggregated = TRUE]
    /\ CallWriter(p, "aggregate", "")
    /\ IF got = {w \in Workloads : deploy[w].exists}
          /\ gotSvc = svc[WebName].exists /\ nodeIP = getNodeIP(nodes)
       THEN Faults(0) ELSE Faults(1)

checkComponentStatus(p) ==
    /\ pc[p] = "aggregate"
    /\ \E got \in SUBSET {w \in Workloads : deploy[w].exists} :
       \E ready \in Readiness(got) :
       \E gotSvc \in {svc[WebName].exists, FALSE} :
       \E nodeIP \in {getNodeIP(nodes), ""} :
          Aggregate(p, got, ready, gotSvc, nodeIP)
    /\ UNCHANGED <<root, dependents, result, fullGens, quiet, aside>>

\* the aggregation when every read succeeds and the workload controller
\* reports every replica of every workload ready
checkComponentStatusReady(p) ==
    /\ pc[p] = "aggregate"
    /\ LET got == {w \in Workloads : deploy[w].exists} IN
          Aggregate(p, got, [w \in got |-> deploy[w].Spec.Replicas],
                    svc[WebName].exists, getNodeIP(nodes))
    /\ UNCHANGED <<root, dependents, result, fullGens, quiet, aside>>

(***************************************************************************)
(* reconcileDelete, after its status write returned.                       *)
(***************************************************************************)
\* a deletion pass that ends without error when the binding was not deleted
DeleteFailedSwallowed == Res(FALSE, 0, "")

\* return ctrl.Result{}, err after r.Delete of the binding failed
DeleteFailed == Res(FALSE, 0, "delete")

\* if err := r.Get(ctx, ..., crb); err == nil { r.Delete ... }
DeletesBinding(got) == got = "found"

\* r.Get of the binding, and r.Delete of it when the lookup found it
deleteBinding(p) ==
    /\ pc[p] = "deleteBinding"
    /\ \E got \in {IF crb THEN "found" ELSE "notfound", "error"} :
          IF DeletesBinding(got)
          THEN \/ \* r.Delete succeeds
                  /\ crb' = FALSE
                  /\ bindingMade' = FALSE
                  /\ log' = [log EXCEPT ![p].deletes = @ \cup {<<"crb", "cluster-admin">>},
                                        ![p].bindingCleared = TRUE]
                  /\ kn' = [kn EXCEPT ![p].Finalizer = FALSE]
                  /\ pc' = [pc EXCEPT ![p] = "removeFinalizer"]
                  /\ UNCHANGED <<sw, result, faults>>
               \/ \* r.Delete fails with an error other than not-found
                  /\ Faults(1)
                  /\ Return(p, DeleteFailed, log, FALSE)
                  /\ UNCHANGED <<crb, bindingMade>>
          ELSE /\ log' = [log EXCEPT ![p].bindingCleared = (got = "notfound")]
               /\ kn' = [kn EXCEPT ![p].Finalizer = FALSE]
               /\ pc' = [pc EXCEPT ![p] = "removeFinalizer"]
               /\ IF got = "error" THEN Faults(1) ELSE Faults(0)
               /\ UNCHANGED <<crb, bindingMade, sw, result>>
    /\ UNCHANGED <<root, sa, secret, cms, deploy, svc, ingress, fullGens, quiet,
                   diff, ids, touched, nodes>>

\* r.Update of the root with the finalizer removed
removeFinalizer(p) ==
    /\ pc[p] = "removeFinalizer"
    /\ \/ \* the write fails: a version conflict, a missing root, a store error
          /\ IF ~root.exists \/ Conflicts(kn[p]) THEN Faults(0) ELSE Faults(1)
          /\ Return(p, Res(FALSE, 0, "update"), log, FALSE)
          /\ UNCHANGED root
       \/ /\ root.exists /\ ~Conflicts(kn[p])
          /\ Faults(0)
          /\ root' = Updated(kn[p])
          /\ Return(p, Res(FALSE, 0, ""), [log EXCEPT ![p].removedFinalizer = TRUE], TRUE)
    /\ UNCHANGED <<dependents, fullGens, quiet, aside>>

(***************************************************************************)
(* The environment: users, the workload controller, the store.             *)
(***************************************************************************)
\* a user replaces the desired state
SpecChangeTo(names) ==
    /\ root.exists /\ ~root.Deleting
    /\ root.Generation < MaxGen
    /\ \E s \in names \ {root.Spec} :
          root' = [root EXCEPT !.Spec = s, !.Generation = @ + 1]
    /\ kn' = AgedKn
    /\ sw' = AgedSw
    /\ quiet' = "changed"
    /\ UNCHANGED <<dependents, pc, result, log, faults, fullGens, aside>>

SpecChange == SpecChangeTo(SpecNames)

\* the user moves the storage certificate to another secret, or back
RotateSecret == SpecChangeTo({"ing", "rot"})

\* another writer changes the root's metadata: the version token moves, the
\* generation does not
TouchRoot ==
    /\ root.exists
    /\ kn' = AgedKn
    /\ sw' = AgedSw
    /\ quiet' = "changed"
    /\ UNCHANGED <<root, dependents, pc, result, log, faults, fullGens, aside>>

\* another writer changes the desired state or the metadata of the root, also
\* of a root that carries a deletion timestamp; the passes in flight fetched
\* before the change
ChangeRoot ==
    /\ root.exists
    /\ \/ /\ root.Generation < MaxGen
          /\ \E s \in SpecNames \ {root.Spec} :
                root' = [root EXCEPT !.Spec = s, !.Generation = @ + 1]
       \/ UNCHANGED root
    /\ kn' = AgedKn
    /\ sw' = AgedSw
    /\ log' = [q \in Passes |->
                  IF pc[q] # "idle" THEN [log[q] EXCEPT !.changed = TRUE] ELSE log[q]]
    /\ quiet' = "changed"
    /\ UNCHANGED <<dependents, pc, result, faults, fullGens, aside>>

\* a user deletes the root: the store marks it while a finalizer is on it
DeleteRoot ==
    /\ root.exists /\ ~root.Deleting
    /\ IF root.Finalizer
       THEN root' = [root EXCEPT !.Deleting = TRUE]
       ELSE root' = NoRoot
    /\ kn' = AgedKn
    /\ sw' = AgedSw
    /\ quiet' = "changed"
    /\ UNCHANGED <<dependents, pc, result, log, faults, fullGens, aside>>

\* the store (an admission hook) adds a label to a workload
InjectLabel ==
    /\ \E w \in Workloads :
          /\ deploy[w].exists /\ deploy[w].Labels = {}
          /\ deploy' = [deploy EXCEPT ![w].Labels = {"injected"}]
    /\ quiet' = "changed"
    /\ UNCHANGED <<root, sa, crb, secret, cms, svc, ingress,
                   pc, kn, sw, result, log, faults, fullGens, aside>>

\* another writer edits the credential document or the first config document:
\* its data payload, or its metadata (a label added, the owner reference dropped)
EditConfig ==
    /\ root.exists /\ ~root.Deleting
    /\ \E e \in {"data", "meta"} :
          LET edit(doc, data) ==
                  IF e = "data" THEN [doc EXCEPT !.Data = data]
                  ELSE [doc EXCEPT !.Labels = {"edited"}, !.Owner = FALSE]
          IN
          \/ /\ secret.exists
             /\ secret' = edit(secret, [secret.Data EXCEPT !.MYSQL_HOST = "edited"])
             /\ secret' # secret
             /\ UNCHANGED cms
          \/ /\ cms[ConfigMapNames[1]].exists
             /\ cms' = [cms EXCEPT ![ConfigMapNames[1]] = edit(@, "edited")]
             /\ cms' # cms
             /\ UNCHANGED secret
    /\ quiet' = "changed"
    /\ UNCHANGED <<root, sa, crb, deploy, svc, ingress,
                   pc, kn, sw, result, log, faults, fullGens, aside>>

\* the store's collector removes what the vanished root owned; the binding is
\* cluster-scoped and carries no owner reference
GarbageCollect ==
    /\ ~root.exists
    /\ sa \/ secret.exists \/ ingress
       \/ \E n \in DOMAIN cms : cms[n].exists
       \/ \E w \in Workloads : deploy[w].exists \/ svc[w].exists
    /\ sa' = FALSE
    /\ secret' = NoDoc
    /\ cms' = [n \in DOMAIN cms |-> NoDoc]
    /\ deploy' = [w \in Workloads |-> NoDoc]
    /\ svc' = [w \in Workloads |-> NoDoc]
    /\ ingress' = FALSE
    /\ quiet' = "changed"
    /\ UNCHANGED <<root, crb, pc, kn, sw, result, log, faults, fullGens, aside>>

\* a user deletes a workload of a root that is Ready for its generation; the
\* manager gets the event of the owned document (Owns(&appsv1.Deployment{}))
DeleteWorkload ==
    /\ root.exists /\ ~root.Deleting
    /\ root.Status.Phase = "Ready" /\ root.Status.ObservedGeneration = root.Generation
    /\ \E w \in Workloads :
          /\ deploy[w].exists
          /\ deploy' = [deploy EXCEPT ![w] = NoDoc]
    /\ quiet' = "changed"
    /\ UNCHANGED <<root, sa, crb, secret, cms, svc, ingress,
                   pc, kn, sw, result, log, faults, fullGens, aside>>

\* one step of a pass
Pass(p) ==
    \/ Reconcile(p)
    \/ addFinalizer(p)
    \/ updateStatusGet(p)
    \/ updateStatusPut(p)
    \/ updateStatusReturn(p)
    \/ reconcileValidation(p)
    \/ reconcileNamespace(p)
    \/ reconcileRBAC(p)
    \/ reconcileSecret(p)
    \/ reconcileConfigMaps(p)
    \/ reconcileServices(p)
    \/ reconcileWeb(p)
    \/ checkComponentStatus(p)
    \/ deleteBinding(p)
    \/ removeFinalizer(p)

(***************************************************************************)
(* The specifications.  All run the same passes; they differ in what the   *)
(* environment does meanwhile.                                             *)
(***************************************************************************)
\* the manager runs one pass at a time on a root; the root's metadata is
\* written by others, the root is deleted
Next ==
    \/ Pass("p1")
    \/ TouchRoot
    \/ DeleteRoot
    \/ GarbageCollect

Spec == Init /\ [][Next]_vars

\* the desired state changes, the store labels workloads
NextDrift ==
    \/ Pass("p1")
    \/ SpecChange
    \/ InjectLabel
    \/ DeleteRoot

SpecDrift == InitWith({"np"}, MaxFaults) /\ [][NextDrift]_vars

\* the desired state changes, another writer edits the config documents
NextConfig ==
    \/ Pass("p1")
    \/ SpecChange
    \/ EditConfig
    \/ DeleteRoot

SpecConfig == InitWith({"np"}, 0) /\ [][NextConfig]_vars

\* the desired state changes in the name of a mounted secret alone; nobody
\* but the passes writes the dependent resources
NextRotate ==
    \/ Pass("p1")
    \/ RotateSecret
    \/ DeleteRoot

SpecRotate == InitWith({"ing"}, MaxFaults) /\ [][NextRotate]_vars

\* two passes on the same root, and no store call fails but for a conflict
NextConc ==
    \/ \E p \in Passes : Pass(p)
    \/ DeleteRoot

SpecConc == InitWith({"np"}, 0) /\ [][NextConc]_vars

\* what makes the manager run a pass on the root: the creation event, and a
\* returned requeue, requeue delay or error
Triggered(p) ==
    \/ result[p] = NoResult
    \/ result[p].Requeue
    \/ result[p].RequeueAfter > 0
    \/ result[p].Err # ""

\* the manager runs the pass that was asked for, and a pass that started runs
\* to its return
Scheduled(p) ==
    \/ Reconcile(p) /\ Triggered(p)
    \/ pc[p] # "idle" /\ Pass(p)

\* the desired state changes and the root is deleted; a store call fails only
\* on a stale version token or a missing root
NextLive ==
    \/ Pass("p1")
    \/ SpecChange
    \/ DeleteRoot

SpecLive ==
    /\ InitWith({"np"}, 0)
    /\ [][NextLive]_vars
    /\ WF_vars(Scheduled("p1"))
    /\ SF_vars(checkComponentStatusReady("p1"))

\* the desired state changes, and the root is deleted, at any step of a pass;
\* nothing is assumed about how often a pass runs
SpecRace == InitWith({"np"}, 0) /\ [][NextLive]_vars

\* the root is deleted at any point of its life; store calls fail up to the
\* fault budget and every pass that was asked for runs
NextGone ==
    \/ Pass("p1")
    \/ DeleteRoot

SpecGone ==
    /\ InitWith(SpecNames, MaxFaults)
    /\ [][NextGone]_vars
    /\ WF_vars(Scheduled("p1"))

\* other writers change the root while a pass is in flight, also during its
\* deletion; no store call fails but on a stale version token
NextStale ==
    \/ Pass("p1")
    \/ ChangeRoot
    \/ DeleteRoot

SpecStale == InitWith({"np"}, 0) /\ [][NextStale]_vars

\* a secret, a config document and a workload that carry the names the
\* builders use but no owner reference to the root, with payloads of their own
ForeignSecret ==
    [exists |-> TRUE, Data |-> [BuildSecret(SpecTable["np"]) EXCEPT !.MYSQL_HOST = "theirs"],
     Labels |-> {}, Owner |-> FALSE]

ForeignConfigMap == [exists |-> TRUE, Data |-> "theirs", Labels |-> {}, Owner |-> FALSE]

ForeignDeploy ==
    [exists |-> TRUE,
     Spec |-> [buildDeployment(SpecTable["np"], services[1]) EXCEPT !.Replicas = 3],
     Labels |-> {}, Owner |-> FALSE]

\* the namespace and the cluster hold such documents, and a binding of the
\* name the engine derives, before the first pass of the root
InitForeign ==
    /\ root = [ exists |-> TRUE, Generation |-> 1, ResourceVersion |-> "current",
                Finalizer |-> FALSE, Deleting |-> FALSE, Spec |-> "np",
                Status |-> EmptyStatus ]
    /\ sa = FALSE
    /\ crb = TRUE
    /\ bindingMade = FALSE
    /\ secret = ForeignSecret
    /\ cms = [n \in Range(ConfigMapNames) \cup {NginxConfigMapName} |->
                 IF n = ConfigMapNames[1] THEN ForeignConfigMap ELSE NoDoc]
    /\ deploy = [w \in Workloads |-> IF w = services[1] THEN ForeignDeploy ELSE NoDoc]
    /\ svc = [w \in Workloads |-> NoDoc]
    /\ ingress = FALSE
    /\ pc = [p \in Passes |-> "idle"]
    /\ kn = [p \in Passes |-> NoRoot]
    /\ sw = [p \in Passes |-> IdleWriter]
    /\ result = [p \in Passes |-> NoResult]
    /\ log = [p \in Passes |-> NewLog]
    /\ faults = MaxFaults
    /\ fullGens = {}
    /\ quiet = "changed"
    /\ diff = NoDiff
    /\ ids = NoFleet
    /\ touched = [r \in DOMAIN NoFleet |-> {}]
    /\ nodes \in NodeInventories

NextForeign ==
    \/ Pass("p1")
    \/ DeleteRoot

SpecForeign == InitForeign /\ [][NextForeign]_vars

\* the web tier is exposed by an ingress or with https on a node port, then
\* the desired state changes; the cluster has any of the node inventories
InitAccess ==
    /\ InitStore({"ing", "tls"}, MaxFaults)
    /\ diff = NoDiff
    /\ ids = NoFleet
    /\ touched = [r \in DOMAIN NoFleet |-> {}]
    /\ nodes \in AccessInventories

NextAccess ==
    \/ Pass("p1")
    \/ SpecChange
    \/ DeleteRoot

SpecAccess == InitAccess /\ [][NextAccess]_vars

\* the desired state stays as it is; workloads of the Ready root are deleted
NextHeal ==
    \/ Pass("p1")
    \/ DeleteWorkload
    \/ DeleteRoot

SpecHeal ==
    /\ InitWith({"np"}, 0)
    /\ [][NextHeal]_vars
    /\ WF_vars(Scheduled("p1"))
    /\ SF_vars(checkComponentStatusReady("p1"))

(***************************************************************************)
(* The diff engine on its own: deploymentSpecEqual applied to a desired    *)
(* workload of the builders and an observed one that edits set apart.      *)
(***************************************************************************)
\* the desired states the validator accepts
ValidSpecNames == {n \in SpecNames : ValidateKubeNova(SpecTable[n]) = ""}

\* the workload documents the builders produce for them
DesiredWorkloads ==
    UNION { {buildDeployment(SpecTable[n], w) : w \in BuildAllServices(SpecTable[n])}
            \cup {buildWebDeployment(SpecTable[n])} : n \in ValidSpecNames }

Reverse(s) == [i \in 1..Len(s) |-> s[Len(s) + 1 - i]]

\* what another writer of the store may do to a stored workload, in the
\* order in which the edits of a set are applied
Edits == <<"replicas", "image", "pullPolicy", "envValue", "envFieldRef", "resources",
           "mountPath", "mountSubPath", "volumeSource", "account",
           "envReorder", "mountReorder">>

ApplyEdit(d, e) ==
    CASE e = "replicas" -> [d EXCEPT !.Replicas = @ + 1]
      [] e = "image" -> [d EXCEPT !.Containers[1].Image = @ \o "-patched"]
      [] e = "pullPolicy" -> [d EXCEPT !.Containers[1].ImagePullPolicy = "Always"]
      [] e = "envValue" -> [d EXCEPT !.Containers[1].Env[1].Value = "UTC"]
      [] e = "envFieldRef" ->
             [d EXCEPT !.Containers[1].Env[2].Value = "",
                       !.Containers[1].Env[2].FieldRef = "metadata.name"]
      [] e = "resources" -> [d EXCEPT !.Containers[1].Resources.Limits.memory = "1Gi"]
      [] e = "mountPath" -> [d EXCEPT !.Containers[1].VolumeMounts[1].MountPath = "/mnt"]
      [] e = "mountSubPath" -> [d EXCEPT !.Containers[1].VolumeMounts[1].SubPath = "sub"]
      [] e = "volumeSource" -> [d EXCEPT !.Volumes[1].Source = <<"configMap", "other">>]
      [] e = "account" -> [d EXCEPT !.ServiceAccountName = "default"]
      [] e = "envReorder" -> [d EXCEPT !.Containers[1].Env = Reverse(@)]
      [] OTHER -> [d EXCEPT !.Containers[1].VolumeMounts = Reverse(@)]

RECURSIVE ApplyEdits(_, _, _)
\* d after the edits of the set es, from the i-th of Edits on
ApplyEdits(d, es, i) ==
    IF i > Len(Edits) THEN d
    ELSE ApplyEdits(IF Edits[i] \in es THEN ApplyEdit(d, Edits[i]) ELSE d, es, i + 1)

InitDiff ==
    /\ InitStore({"np"}, 0)
    /\ ids = NoFleet
    /\ touched = [r \in DOMAIN NoFleet |-> {}]
    /\ nodes \in NodeInventories
    /\ \E d \in DesiredWorkloads :
       \E es \in {x \in SUBSET Range(Edits) : Cardinality(x) <= MaxEdits} :
          diff = [existing |-> ApplyEdits(d, es, 1), desired |-> d,
                  called |-> FALSE, equal |-> FALSE,
                  web |-> d \in {buildWebDeployment(SpecTable[n]) : n \in ValidSpecNames},
                  updated |-> FALSE, latest |-> NoDoc, written |-> NoDoc]

\* if !deploymentSpecEqual(&existingDeploy.Spec, &deployment.Spec)
Compare ==
    /\ ~diff.called
    /\ diff' = [diff EXCEPT !.called = TRUE,
                            !.equal = deploymentSpecEqual(diff.existing, diff.desired)]
    /\ UNCHANGED <<root, dependents, pc, kn, sw, result, log, faults, fullGens, quiet,
                   ids, touched, nodes, bindingMade>>

\* the stored workload the first r.Get of the step returned
FirstRead(spec) ==
    [exists |-> TRUE, Spec |-> spec, Labels |-> {}, Owner |-> TRUE, ResourceVersion |-> 1]

\* what the second r.Get may return: the same document, or the document as
\* another writer left it in between, under a new version token
SecondRead(doc) ==
    {doc}
    \cup {[doc EXCEPT !.ResourceVersion = @ + 1, !.Labels = {"injected"}]}
    \cup {[doc EXCEPT !.ResourceVersion = @ + 1, !.Spec = ApplyEdit(@, e)] :
             e \in {"replicas", "pullPolicy", "account"}}

\* the update path: re-fetch, splice, r.Update; the web tier's path copies
\* no identity reference
Update ==
    /\ diff.called /\ ~diff.equal /\ ~diff.updated
    /\ \E latest \in SecondRead(FirstRead(diff.existing)) :
          diff' = [diff EXCEPT !.updated = TRUE,
                               !.latest = latest,
                               !.written = UpdateDeploy(latest, diff.desired, ~diff.web)]
    /\ UNCHANGED <<root, dependents, pc, kn, sw, result, log, faults, fullGens, quiet,
                   ids, touched, nodes, bindingMade>>

NextDiff == Compare \/ Update

SpecDiff == InitDiff /\ [][NextDiff]_vars

(***************************************************************************)
(* Two roots: the store objects the passes of each write, by kind,         *)
(* namespace and name as the builders and the controller name them.        *)
(***************************************************************************)
\* metadata.namespace and metadata.name of a root
Identities ==
    {[Namespace |-> ns, Name |-> n] : ns \in {"ns", "ns-a"}, n \in {"a-b", "b"}}

\* fmt.Sprintf("kube-nova-%s-%s-cluster-admin", namespace, kn.Name)
BindingName(id) == "kube-nova-" \o id.Namespace \o "-" \o id.Name \o "-cluster-admin"

RECURSIVE ServiceObjects(_, _, _)
\* the workload and the network-expose document of each enabled service from
\* the i-th on
ServiceObjects(id, sp, i) ==
    IF i > Len(services) THEN << >>
    ELSE (IF services[i] \in BuildAllServices(sp)
          THEN << <<"Deployment", id.Namespace, services[i]>>,
                  <<"Service", id.Namespace, services[i]>> >>
          ELSE << >>)
         \o ServiceObjects(id, sp, i + 1)

\* the objects a pass on the root id writes, in the order of the stages
ObjectSeq(id, sp) ==
    << <<"ServiceAccount", id.Namespace, ServiceAccountName>>,
       <<"ClusterRoleBinding", "", BindingName(id)>>,
       <<"Secret", id.Namespace, SecretName>> >>
    \o [i \in 1..Len(ConfigMapNames) |-> <<"ConfigMap", id.Namespace, ConfigMapNames[i]>>]
    \o ServiceObjects(id, sp, 1)
    \o (IF WantsNginxConfigMap(sp)
        THEN << <<"ConfigMap", id.Namespace, NginxConfigMapName>> >> ELSE << >>)
    \o << <<"Deployment", id.Namespace, WebName>>,
          <<"Service", id.Namespace, WebName>> >>
    \o (IF WantsIngress(sp) THEN << <<"Ingress", id.Namespace, WebName>> >> ELSE << >>)

InitFleet ==
    /\ InitStore({"ing"}, 0)
    /\ diff = NoDiff
    /\ ids \in {f \in [DOMAIN NoFleet -> Identities] : f["r1"] # f["r2"]}
    /\ touched = [r \in DOMAIN NoFleet |-> {}]
    /\ nodes \in NodeInventories

\* a pass on the root r issues its next write
WriteNext(r) ==
    LET objects == ObjectSeq(ids[r], SpecTable[root.Spec])
        n == Cardinality(touched[r])
    IN
    /\ n < Len(objects)
    /\ touched' = [touched EXCEPT ![r] = @ \cup {objects[n + 1]}]
    /\ UNCHANGED <<root, dependents, pc, kn, sw, result, log, faults, fullGens, quiet,
                   diff, ids, nodes, bindingMade>>

NextFleet == \E r \in DOMAIN NoFleet : WriteNext(r)

SpecFleet == InitFleet /\ [][NextFleet]_vars

(***************************************************************************)
(* Properties.                                                             *)
(***************************************************************************)
\* C1: a create or an update of a dependent resource is issued only by a pass
\* whose initial fetch showed the finalizer on the root; a pass that found
\* the finalizer absent on a root that is not being deleted only adds it and
\* persists the root, issues no create and no update, and returns
\* Requeue-Immediate, or the write error when persisting the root failed.
FinalizerBeforeCreate ==
    \A p \in Passes :
        /\ (log[p].created \/ log[p].updates # {}) => log[p].sawFinalizer
        /\ (log[p].fetched /\ ~log[p].sawFinalizer /\ ~log[p].sawDeleting) =>
              /\ pc[p] \in {"addFinalizer", "idle"}
              /\ ~log[p].created /\ log[p].updates = {}
              /\ pc[p] = "idle" =>
                    IF log[p].addedFinalizer
                    THEN result[p] = Res(TRUE, 0, "")
                    ELSE result[p] = Res(FALSE, 0, "update")

\* a pass that saw the finalizer created dependent resources, the binding
\* among them, after an earlier pass had added the finalizer
FinalizerBeforeCreateWitness ==
    \E p \in Passes :
        /\ log[p].created /\ log[p].sawFinalizer
        /\ crb /\ root.exists /\ root.Finalizer

\* C2: a deletion pass removes the finalizer only after it found the binding
\* absent or deleted it; the finalizer is never removed while the binding
\* still exists.
FinalizerAfterBindingCleanup ==
    \A p \in Passes :
        log[p].removedFinalizer => log[p].bindingCleared /\ ~crb

\* C3: the persisted observedGeneration has value g only if some pass took
\* generation g through all stages and persisted the aggregated status.
ObservedGenerationAfterFullPass ==
    root.exists =>
        \/ root.Status.ObservedGeneration = 0
        \/ root.Status.ObservedGeneration \in fullGens

\* C4: once a pass that fetched the root later persisted status, no status
\* write of a pass that fetched earlier replaces that status.
NoStaleStatusOverwrite ==
    \A p \in Passes : ~log[p].overwroteNewer

\* C5: a call of updateStatusWithRetry makes at most 3 write attempts; when it
\* returns success the caller's in-memory root holds the version token and
\* the status of the write that succeeded; when 3 attempts met a conflict it
\* returns an error.
RetryBound ==
    \A p \in Passes :
        /\ sw[p].attempts <= 3
        /\ (pc[p] = "swDone" /\ sw[p].outcome = "ok") =>
              /\ kn[p].ResourceVersion = sw[p].writtenRV
              /\ kn[p].Status = sw[p].writtenStatus
        /\ sw[p].conflicts = 3 =>
              /\ pc[p] = "swDone" /\ sw[p].outcome = "err"
              /\ sw[p].attempts = 3

\* the writer returned success from its third attempt after two conflicts
RetryBoundWitness ==
    \E p \in Passes :
        /\ pc[p] = "swDone" /\ sw[p].outcome = "ok"
        /\ sw[p].attempts = 3 /\ sw[p].conflicts = 2
        /\ kn[p].ResourceVersion = "current"

\* C6: when the pipeline runs a second time after a pass that completed, with
\* no external change in between, it issues no create and no update.
SecondPassWritesNothing ==
    quiet = "second" =>
        \A p \in Passes : ~log[p].created /\ log[p].updates = {}

\* C7: in the pass after one that failed in reconcileServices, on the same
\* generation, reconcileConfigMaps issues no write for a config document that
\* exists with the desired content.
ConfigNotRewrittenOnRetry ==
    \A p \in Passes : log[p].retry => ~log[p].rewroteConfig

\* such a pass went through reconcileConfigMaps with every document in place
ConfigNotRewrittenOnRetryWitness ==
    \E p \in Passes :
        /\ log[p].retry /\ pc[p] = "services"
        /\ ~log[p].created /\ log[p].updates = {}
        /\ \A n \in Range(ConfigMapNames) :
              cms[n].exists /\ cms[n].Data = buildConfigData(n)

\* C8: a workload that differs from the desired one in a label only is not
\* updated; a workload whose replica count differs from the desired one is
\* updated to the desired count.
DiffFieldScoping ==
    \A p \in Passes : log[p].needless = {} /\ log[p].unscaled = {}

\* C9: the aggregator sets phase Ready if every component it read is Ready
\* and Creating otherwise; the Ready condition is True exactly when the phase
\* is Ready.
PhaseAggregation ==
    \A p \in Passes :
        log[p].aggregated =>
            /\ kn[p].Status.Phase =
                  IF \A e \in log[p].read : e[2] = "Ready" THEN "Ready" ELSE "Creating"
            /\ kn[p].Status.Ready = "True" <=> kn[p].Status.Phase = "Ready"
            /\ kn[p].Status.Ready \in {"True", "False"}

\* the aggregator read a Ready web tier and a Running backend, and set Creating
PhaseAggregationWitness ==
    \E p \in Passes :
        /\ log[p].aggregated
        /\ <<WebName, "Ready">> \in log[p].read
        /\ <<"portal-api", "Running">> \in log[p].read
        /\ kn[p].Status.Phase = "Creating" /\ kn[p].Status.Ready = "False"

\* C10: when a pass persisted phase Ready, it read the workload of every
\* enabled backend service and of the web tier with all replicas ready, and
\* every entry of the persisted component status is Ready.
ReadyMeansAllComponentsReady ==
    \A p \in Passes :
        (/\ log[p].aggregated /\ pc[p] = "swDone" /\ sw[p].outcome = "ok"
         /\ kn[p].Status.Phase = "Ready") =>
            /\ BuildAllServices(TheSpec(kn[p])) \cup {WebName} \subseteq log[p].readReady
            /\ \A w \in Workloads : kn[p].Status.Components[w].State \in {"", "Ready"}

\* the stages of the pipeline, in the order of Reconcile
StageSeq == <<"validate", "namespace", "rbac", "secret", "config", "services",
              "web", "aggregate">>

\* the positions of a pass inside updateStatusWithRetry
WriterStates == {"swGet", "swUpdate", "swDone"}

\* C11: within a pass the stages run at most once each and in the fixed order
\* validate, namespace, rbac, secret, config, services, web, aggregate; a stage
\* starts only after the stage before it succeeded; a stage writes only its own
\* kinds of resources, and once a stage failed the pass writes no dependent
\* resource; a pass on an invalid desired state writes no dependent resource.
StageOrder ==
    /\ [](\A p \in Passes :
            /\ log[p].failed # "" =>
                  /\ pc[p] \in WriterStates
                  /\ sw[p].ret = "failed"
            /\ (kn[p].exists /\ TheSpec(kn[p]).Database.Host = "") =>
                  ~log[p].created /\ log[p].updates = {})
    /\ [][\A p \in Passes :
            /\ (pc'[p] # pc[p] /\ pc'[p] \in Range(StageSeq)) =>
                  \/ pc[p] = "idle" /\ pc'[p] = StageSeq[1]
                  \/ /\ \E i \in 1..(Len(StageSeq) - 1) :
                           pc[p] = StageSeq[i] /\ pc'[p] = StageSeq[i + 1]
                     /\ log'[p].failed = ""
            /\ pc'[p] # pc[p] =>
                  CASE pc[p] \in {"validate", "namespace", "aggregate"} \cup WriterStates ->
                          /\ sw[p].ret # "delete" => UNCHANGED dependents
                          /\ UNCHANGED <<sa, secret, cms, deploy, svc, ingress>>
                    [] pc[p] = "rbac" -> UNCHANGED <<secret, cms, deploy, svc, ingress>>
                    [] pc[p] = "secret" -> UNCHANGED <<sa, crb, cms, deploy, svc, ingress>>
                    [] pc[p] = "config" -> UNCHANGED <<sa, crb, secret, deploy, svc, ingress>>
                    [] pc[p] = "services" -> UNCHANGED <<sa, crb, secret, cms, ingress>>
                    [] pc[p] = "web" -> UNCHANGED <<sa, crb, secret>>
                    [] OTHER -> TRUE]_vars

\* reconcileSecret failed after reconcileRBAC had created its resources, and
\* nothing of the later stages was written
StageOrderWitness ==
    \E p \in Passes :
        /\ pc[p] = "swGet" /\ log[p].failed = "secret"
        /\ sa /\ crb /\ ~secret.exists
        /\ \A w \in Workloads : ~deploy[w].exists /\ ~svc[w].exists

\* C12: when a stage fails the pass sets the in-memory phase to Failed with a
\* message naming the stage, calls the retry-safe writer, and returns the
\* stage's error with a one-minute requeue, whatever the writer returned.
StageFailure ==
    /\ [](\A p \in Passes :
            log[p].failed # "" =>
                /\ pc[p] \in WriterStates /\ sw[p].ret = "failed"
                /\ sw[p].err = log[p].failed
                /\ kn[p].Status.Phase = "Failed"
                /\ kn[p].Status.Message = log[p].failed)
    /\ [][\A p \in Passes :
            (log[p].failed # "" /\ pc'[p] = "idle") =>
                /\ pc[p] = "swDone"
                /\ result'[p] = Res(FALSE, 60, log[p].failed)]_vars

\* a pass returned the validation error with the one-minute requeue although
\* the Failed phase was not persisted
StageFailureWitness ==
    \E p \in Passes :
        /\ pc[p] = "idle" /\ result[p] = Res(FALSE, 60, "validation")
        /\ root.exists /\ root.Status.Phase # "Failed"

\* C13: after a pass in which all stages succeeded and status was persisted,
\* the pass returns the idle interval if every component is ready and the
\* short interval if one is not.
RequeueFollowsReadiness ==
    [][\A p \in Passes :
          (/\ pc[p] = "swDone" /\ sw[p].ret = "aggregate" /\ sw[p].outcome = "ok"
           /\ pc'[p] = "idle") =>
              result'[p] = Res(FALSE, IF kn[p].Status.Phase = "Ready" THEN 300 ELSE 30, "")]_vars

\* C14: when the status write of the aggregation stage fails, the pass returns
\* no error and a 30-second requeue, and the writer and the return leave the
\* dependent resources as the stages wrote them.
StatusWriteFailureTolerated ==
    [][\A p \in Passes :
          /\ (/\ pc[p] = "swDone" /\ sw[p].ret = "aggregate" /\ sw[p].outcome = "err"
              /\ pc'[p] = "idle") =>
                 result'[p] = Res(FALSE, 30, "")
          /\ (pc[p] \in WriterStates /\ sw[p].ret = "aggregate" /\ pc'[p] # pc[p]) =>
                 UNCHANGED dependents]_vars

\* a pass returned the short requeue without an error, its resources in place
StatusWriteFailureToleratedWitness ==
    \E p \in Passes :
        /\ pc[p] = "idle" /\ result[p] = Res(FALSE, 30, "")
        /\ sa /\ crb /\ secret.exists /\ deploy[WebName].exists /\ svc[WebName].exists

\* C15: when the initial fetch finds no root the pass returns no error and no
\* requeue; any other fetch error is returned as the pass error; in both cases
\* the pass writes nothing to the store.
FetchFailure ==
    [][\A p \in Passes :
          (/\ pc[p] = "idle" /\ pc'[p] = "idle"
           /\ <<log[p], result[p]>>' # <<log[p], result[p]>>
           /\ ~log'[p].fetched) =>
              /\ result'[p] \in {Res(FALSE, 0, ""), Res(FALSE, 0, "get")}
              /\ result'[p].Err = "" => ~root.exists
              /\ UNCHANGED <<root, dependents>>]_vars

\* a pass found the root gone and returned Done; the resources the collector
\* has yet to remove are untouched
FetchFailureWitness ==
    \E p \in Passes :
        /\ pc[p] = "idle" /\ ~log[p].fetched /\ result[p] = Res(FALSE, 0, "")
        /\ ~root.exists /\ sa /\ secret.exists

ShortCircuit ==
    /\ [][\A p \in Passes :
            (/\ pc[p] = "idle" /\ log'[p].fetched
             /\ <<pc[p], log[p], result[p]>>' # <<pc[p], log[p], result[p]>>
             /\ root.exists /\ ~root.Deleting /\ root.Finalizer
             /\ root.Status.ObservedGeneration = root.Generation
             /\ root.Status.Phase = "Ready") =>
                /\ pc'[p] = "idle"
                /\ log'[p].skipped
                /\ result'[p] = Res(FALSE, 300, "")
                /\ UNCHANGED <<root, dependents>>]_vars
    /\ [](\A p \in Passes : log[p].skipped => pc[p] = "idle")

\* a pass took the short-circuit on a root that is Ready
ShortCircuitWitness ==
    \E p \in Passes :
        /\ log[p].skipped /\ pc[p] = "idle" /\ result[p] = Res(FALSE, 300, "")
        /\ root.Status.Phase = "Ready" /\ root.Status.ObservedGeneration = root.Generation
        /\ deploy[WebName].exists

\* the sequences a and b hold the same elements the same number of times
SameBag(a, b) ==
    /\ Len(a) = Len(b)
    /\ \A x \in Range(a) \cup Range(b) :
          Cardinality({i \in 1..Len(a) : a[i] = x}) = Cardinality({i \in 1..Len(b) : b[i] = x})

\* observed and desired agree on every field of the comparison set, the
\* lists taken up to the order of their entries
AgreeUpToOrder(o, d) ==
    /\ o.Replicas = d.Replicas
    /\ Len(o.Containers) = Len(d.Containers)
    /\ Len(o.Containers) > 0 =>
          /\ o.Containers[1].Image = d.Containers[1].Image
          /\ SameBag(o.Containers[1].Env, d.Containers[1].Env)
          /\ o.Containers[1].Resources = d.Containers[1].Resources
          /\ SameBag(o.Containers[1].VolumeMounts, d.Containers[1].VolumeMounts)
    /\ SameBag(o.Volumes, d.Volumes)
    /\ o.ServiceAccountName = d.ServiceAccountName

\* C18: the diff engine returns not-equal whenever the observed and the
\* desired workload differ in a field of the comparison set: replica count,
\* image, environment variables (empty values and field references included),
\* resources, volume mounts, volumes (their sources included), identity.
DiffDetectsDifference ==
    (diff.called /\ ~AgreeUpToOrder(diff.existing, diff.desired)) => ~diff.equal

\* C19: the diff engine returns equal for two workloads that agree on every
\* field of the comparison set up to the order of the environment variables
\* and of the volume mounts; equal(d, d) holds for every workload the builders
\* produce.
DiffIgnoresOrder ==
    (diff.called /\ AgreeUpToOrder(diff.existing, diff.desired)) => diff.equal

\* C20: the passes of two different roots never write the same store object.
DisjointObjects ==
    touched["r1"] \cap touched["r2"] = {}

\* the root is in the store, is not being deleted and its desired state is valid
Live ==
    root.exists /\ ~root.Deleting /\ ValidateKubeNova(SpecTable[root.Spec]) = ""

\* the persisted phase is Ready for the root's generation
ReadyAtGeneration ==
    /\ root.exists
    /\ root.Status.Phase = "Ready"
    /\ root.Status.ObservedGeneration = root.Generation

\* C21: when every requested pass runs, the store calls stop failing and the
\* workloads are reported ready, a root that stays in the store with a valid
\* desired state and without a deletion timestamp eventually has the
\* persisted phase Ready with observedGeneration equal to its generation.
EventuallyReady ==
    Live ~> (ReadyAtGeneration \/ ~Live)

\* the root is Ready for its second generation
EventuallyReadyWitness ==
    /\ Live /\ ReadyAtGeneration
    /\ root.Generation = 2 /\ root.Spec = "ing"
    /\ deploy["portal-rpc"].exists /\ ingress

\* the workload w of the desired state is not in the store
Missing(w) ==
    /\ Live
    /\ w \in BuildAllServices(SpecTable[root.Spec]) \cup {WebName}
    /\ ~deploy[w].exists

\* C22: when a workload of a root that is Ready for its generation is deleted
\* and the desired state stays as it is, repeated passes eventually recreate
\* the workload, and the persisted phase stops being Ready while the workload
\* is missing.
ContinuousConvergence ==
    \A w \in Workloads :
        /\ Missing(w) ~> (deploy[w].exists \/ ~Live)
        /\ Missing(w) ~> (root.Status.Phase # "Ready" \/ deploy[w].exists \/ ~Live)

\* no node of the inventory has an external or an internal address
NoAddress(ns) ==
    \A i \in 1..Len(ns) : \A j \in 1..Len(ns[i].Addresses) :
        ns[i].Addresses[j].Type \notin {"ExternalIP", "InternalIP"}

\* the node port the store assigned to the port name of the web service
AssignedPorts(name) ==
    IF svc[WebName].exists
    THEN {svc[WebName].Spec.Ports[i].NodePort : i \in
             {j \in 1..Len(svc[WebName].Spec.Ports) :
                 /\ svc[WebName].Spec.Ports[j].Name = name
                 /\ svc[WebName].Spec.Ports[j].NodePort > 0}}
    ELSE {}

\* C23: in node-port mode, when no node has a resolvable address, the web
\* address the aggregator sets is a placeholder, never empty: "Service
\* (creating)" when the web service was not read, "NodePort (pending)" when
\* it has no assigned port, else the scheme and the assigned port with the
\* host "<NODE-IP>"; the aggregation does not fail.
AccessPlaceholder ==
    \A p \in Passes :
        (/\ log[p].aggregated
         /\ TheSpec(kn[p]).Web.ExposeType = "nodeport"
         /\ NoAddress(nodes)) =>
            LET url == kn[p].Status.WebURL IN
            /\ url.Host \in {"<NODE-IP>", "NodePort (pending)", "Service (creating)"}
            /\ log[p].failed = "" /\ sw[p].ret = "aggregate"
            /\ ~svc[WebName].exists => url.Host = "Service (creating)"
            /\ \/ url = [Scheme |-> "", Host |-> "Service (creating)", Port |-> 0]
               \/ /\ AssignedPorts("https") # {}
                  /\ url.Scheme = "https" /\ url.Host = "<NODE-IP>"
                  /\ url.Port \in AssignedPorts("https")
               \/ /\ AssignedPorts("https") = {} /\ AssignedPorts("http") # {}
                  /\ url.Scheme = "http" /\ url.Host = "<NODE-IP>"
                  /\ url.Port \in AssignedPorts("http")
               \/ /\ AssignedPorts("https") = {} /\ AssignedPorts("http") = {}
                  /\ svc[WebName].exists
                  /\ url = [Scheme |-> "", Host |-> "NodePort (pending)", Port |-> 0]

\* the only node has no address and the web service has an https node port:
\* the address is https://<NODE-IP>:port
AccessPlaceholderWitness ==
    \E p \in Passes :
        /\ log[p].aggregated /\ pc[p] = "swDone" /\ sw[p].outcome = "ok"
        /\ Len(nodes) = 1 /\ NoAddress(nodes)
        /\ AssignedPorts("https") # {}
        /\ kn[p].Status.WebURL.Scheme = "https"
        /\ kn[p].Status.WebURL.Host = "<NODE-IP>"

\* C24: in updateStatusWithRetry a failed re-fetch and a write error other
\* than a version conflict end the call at once with that error, without a
\* further attempt; a call that returns an error leaves the caller's
\* in-memory status and version token as they were.
WriterErrors ==
    /\ [](\A p \in Passes :
            (pc[p] = "swDone" /\ sw[p].outcome = "err") =>
                sw[p].cause \in {"get", "update", "conflict"})
    /\ [][\A p \in Passes :
            /\ (pc[p] = "swUpdate" /\ pc'[p] = "swGet") =>
                  /\ root.exists /\ sw[p].latest.ResourceVersion # root.ResourceVersion
                  /\ sw[p].i < 2
            /\ (pc[p] = "swGet" /\ pc'[p] # "swGet") =>
                  \/ pc'[p] = "swUpdate" /\ root.exists
                  \/ /\ pc'[p] = "swDone"
                     /\ sw'[p].outcome = "err" /\ sw'[p].cause = "get"
                     /\ sw'[p].attempts = sw[p].attempts
            /\ (pc[p] = "swUpdate" /\ pc'[p] = "swDone" /\ sw'[p].outcome = "err") =>
                  /\ sw'[p].attempts = sw[p].attempts + 1
                  /\ sw'[p].cause = "conflict" =>
                        sw[p].latest.ResourceVersion # root.ResourceVersion
                  /\ sw'[p].cause = "update" =>
                        (root.exists => sw[p].latest.ResourceVersion = root.ResourceVersion)
            /\ (pc[p] \in {"swGet", "swUpdate"} /\ pc'[p] # pc[p]
                /\ sw'[p].outcome # "ok") =>
                  kn'[p] = kn[p] /\ root' = root
            /\ (pc[p] \in WriterStates /\ pc'[p] = pc[p]) =>
                  kn'[p].Status = kn[p].Status]_vars

\* after a conflict the second write failed with a store error: the call
\* returned it, and the in-memory root still holds the status that was to be
\* written and the stale token
WriterErrorsWitness ==
    \E p \in Passes :
        /\ pc[p] = "swDone" /\ sw[p].outcome = "err" /\ sw[p].cause = "update"
        /\ sw[p].attempts = 2 /\ sw[p].conflicts = 1
        /\ kn[p].Status.Phase = "Ready" /\ root.Status.Phase # "Ready"
        /\ kn[p].ResourceVersion = "stale"

\* C25: a deletion pass goes on to the binding cleanup whatever the write of
\* the Deleting phase returned; when the delete call on the binding fails the
\* pass returns that error, the binding and the stored root with its
\* finalizer are as before, and the next pass that starts on the root enters
\* the deletion lifecycle again.
DeletionRetry ==
    /\ [](\A p \in Passes :
            (pc[p] = "idle" /\ result[p].Err = "delete") =>
                /\ result[p] = Res(FALSE, 0, "delete")
                /\ root.exists /\ root.Deleting /\ root.Finalizer /\ crb)
    /\ [][\A p \in Passes :
            /\ (pc[p] = "swDone" /\ sw[p].ret = "delete" /\ pc'[p] # pc[p]) =>
                  /\ pc'[p] = "deleteBinding"
                  /\ kn'[p] = kn[p] /\ UNCHANGED <<root, dependents>>
            /\ (pc[p] = "deleteBinding" /\ pc'[p] = "idle") =>
                  /\ result'[p].Err = "delete"
                  /\ crb /\ UNCHANGED <<root, dependents>>
            /\ (pc[p] = "idle" /\ result[p].Err = "delete" /\ pc'[p] # "idle") =>
                  /\ pc'[p] = "swGet" /\ sw'[p].ret = "delete"
                  /\ log'[p].sawDeleting
                  /\ kn'[p].Status.Phase = "Deleting"]_vars

\* the write of the Deleting phase failed, the pass went on, the delete call
\* failed and the pass returned its error
DeletionRetryWitness ==
    \E p \in Passes :
        /\ pc[p] = "idle" /\ result[p].Err = "delete"
        /\ root.Status.Phase # "Deleting"
        /\ root.Deleting /\ root.Finalizer /\ crb

\* C26: reconcileRBAC issues no write for the identity document or the
\* binding when its lookup found it, exactly one create when the lookup found
\* nothing, and fails without a write to it when the lookup failed; a failed
\* lookup of the identity document ends the stage without any write.  The
\* stage never removes or replaces a document that exists.
RBACCreationOnly ==
    /\ [](\A p \in Passes :
            LET r == log[p].rbac IN
            /\ r.saGot = "found" => r.saCreates = 0
            /\ r.saGot = "notfound" => r.saCreates = 1
            /\ r.saGot = "error" =>
                  /\ r.saCreates = 0 /\ r.crbCreates = 0 /\ r.crbGot = ""
                  /\ log[p].failed = "rbac"
            /\ r.crbGot = "found" => r.crbCreates = 0
            /\ r.crbGot = "notfound" => r.crbCreates = 1
            /\ r.crbGot = "error" => r.crbCreates = 0 /\ log[p].failed = "rbac"
            /\ r.crbGot = "" => r.crbCreates = 0)
    /\ [][\A p \in Passes :
            (pc[p] = "rbac" /\ pc'[p] # pc[p]) =>
                LET r == log'[p].rbac IN
                /\ r.saGot \in {"found", "notfound", "error"}
                /\ r.saGot = "found" => sa
                /\ r.saGot = "notfound" => ~sa
                /\ r.crbGot = "found" => crb
                /\ r.crbGot = "notfound" => ~crb
                /\ (sa => sa') /\ (crb => crb')
                /\ sa' # sa => r.saCreates = 1
                /\ crb' # crb => r.crbCreates = 1
                /\ log'[p].failed = "" =>
                      /\ sa' /\ crb'
                      /\ r.saGot # "error" /\ r.crbGot \in {"found", "notfound"}
                /\ r.saGot = "error" => UNCHANGED <<sa, crb>>
                /\ r.crbGot = "error" => UNCHANGED crb]_vars

\* C26 as stated: a pass whose stage met a lookup error issued no create at all
RBACLookupErrorNoWrite ==
    \A p \in Passes :
        LET r == log[p].rbac IN
        (r.saGot = "error" \/ r.crbGot = "error") =>
            r.saCreates = 0 /\ r.crbCreates = 0

\* the stage found the identity document in place and the binding absent
\* (a deletion pass of an earlier root removed it): it created the binding alone
RBACCreationOnlyWitness ==
    \E p \in Passes :
        /\ pc[p] = "secret"
        /\ log[p].rbac = [saGot |-> "found", saCreates |-> 0,
                          crbGot |-> "notfound", crbCreates |-> 1]
        /\ sa /\ crb

\* C27: the credential stage and the config stage create a document that is
\* absent; a document that is present is written if and only if its observed
\* data differs from the desired data, and the document stored is then the
\* observed one with its data alone replaced (labels and owner reference as
\* observed); after a stage that succeeds every document of the stage holds
\* the desired data.
ConfigCreateOrUpdate ==
    [][\A p \in Passes :
          /\ (pc[p] = "secret" /\ pc'[p] # pc[p]) =>
                LET want == BuildSecret(TheSpec(kn[p]))
                    upd == <<"secret", SecretName>> \in log'[p].updates
                IN
                /\ secret' # secret =>
                      IF secret.exists
                      THEN secret' = [secret EXCEPT !.Data = want] /\ upd
                      ELSE /\ secret' = [exists |-> TRUE, Data |-> want,
                                         Labels |-> {}, Owner |-> TRUE]
                           /\ log'[p].created
                /\ upd => secret.exists /\ secret.Data # want
                /\ log'[p].failed = "" =>
                      /\ secret'.exists /\ secret'.Data = want
                      /\ upd <=> (secret.exists /\ secret.Data # want)
          /\ (pc[p] = "config" /\ pc'[p] # pc[p]) =>
                \A i \in 1..Len(ConfigMapNames) :
                    LET n == ConfigMapNames[i]
                        want == buildConfigData(n)
                        upd == <<"cm", n>> \in log'[p].updates
                    IN
                    /\ cms'[n] # cms[n] =>
                          IF cms[n].exists
                          THEN cms'[n] = [cms[n] EXCEPT !.Data = want] /\ upd
                          ELSE /\ cms'[n] = [exists |-> TRUE, Data |-> want,
                                             Labels |-> {}, Owner |-> TRUE]
                               /\ log'[p].created
                    /\ upd => cms[n].exists /\ cms[n].Data # want
                    /\ log'[p].failed = "" =>
                          /\ cms'[n].exists /\ cms'[n].Data = want
                          /\ upd <=> (cms[n].exists /\ cms[n].Data # want)]_vars

\* a pass has repaired the data of the credential document and of the first
\* config document, both of which another writer had relabelled and disowned
ConfigCreateOrUpdateWitness ==
    \E p \in Passes :
        /\ pc[p] = "services"
        /\ {<<"secret", SecretName>>, <<"cm", ConfigMapNames[1]>>} \subseteq log[p].updates
        /\ secret.Labels = {"edited"} /\ ~secret.Owner
        /\ secret.Data = BuildSecret(TheSpec(kn[p]))
        /\ cms[ConfigMapNames[1]] = [exists |-> TRUE,
                                      Data |-> buildConfigData(ConfigMapNames[1]),
                                      Labels |-> {"edited"}, Owner |-> FALSE]

\* C28: no step alters a network-expose document that exists, whatever the
\* passes and the changes of the desired state (exposure mode, ports), and no
\* pass logs an update of one: its assigned node ports stay as the store set them.
ServicesNeverUpdated ==
    /\ [](\A p \in Passes : \A w \in Workloads : <<"svc", w>> \notin log[p].updates)
    /\ [][\A w \in Workloads : svc[w].exists => svc'[w] = svc[w]]_vars

\* the desired state moved from a node port to an ingress, a full pass at the
\* new generation has reported Ready, and the front-end's network-expose
\* document still is the node-port document with the port the store assigned
ServicesNeverUpdatedWitness ==
    /\ root.exists /\ root.Spec = "ing" /\ root.Generation = 2
    /\ root.Status.ObservedGeneration = 2 /\ root.Status.Phase = "Ready"
    /\ 2 \in fullGens
    /\ svc[WebName].exists
    /\ svc[WebName].Spec.Type = "NodePort"
    /\ svc[WebName].Spec.Ports[1].NodePort = 31001
    /\ buildWebService(TheSpec(root)).Type # "NodePort"

\* C29: the document the update path writes is the re-fetched document with
\* replica count, containers, volumes, identity reference and pull secrets
\* replaced by the desired values; its other fields (labels, owner, what
\* another writer changed between the two reads) and its version token are
\* those of the re-fetched document.
SpliceOntoRefetched ==
    diff.updated =>
        diff.written =
            [diff.latest EXCEPT
                !.Spec = [diff.latest.Spec EXCEPT
                             !.Replicas = diff.desired.Replicas,
                             !.Containers = diff.desired.Containers,
                             !.Volumes = diff.desired.Volumes,
                             !.ServiceAccountName = diff.desired.ServiceAccountName,
                             !.ImagePullSecrets = diff.desired.ImagePullSecrets]]

\* C30: an update leaves every field outside the comparison set as the store
\* held it before the update: metadata, pull secrets, and of the containers
\* the pull policy, the ports and the containers after the first.
UpdateKeepsUncomparedFields ==
    diff.updated =>
        LET before == diff.latest
            after == diff.written
            rest(cs) == [i \in 1..(Len(cs) - 1) |-> cs[i + 1]]
        IN
        /\ after.Labels = before.Labels
        /\ after.Owner = before.Owner
        /\ after.Spec.ImagePullSecrets = before.Spec.ImagePullSecrets
        /\ Len(after.Spec.Containers) = Len(before.Spec.Containers)
        /\ rest(after.Spec.Containers) = rest(before.Spec.Containers)
        /\ after.Spec.Containers[1].ImagePullPolicy = before.Spec.Containers[1].ImagePullPolicy
        /\ after.Spec.Containers[1].Ports = before.Spec.Containers[1].Ports

\* C31: every component the aggregator read, backend service or web tier, is
\* recorded with the ready and desired replica counts that were read, and
\* with state Ready when they are equal, Running when ready is positive and
\* below desired, Pending when ready is zero and desired is positive.
ComponentClassification ==
    \A p \in Passes :
        log[p].aggregated =>
            \A c \in log[p].counts :
                LET e == kn[p].Status.Components[c[1]]
                    ready == c[2]
                    desired == c[3]
                IN
                /\ e.ReadyReplicas = ready
                /\ e.DesiredReplicas = desired
                /\ ready = desired => e.State = "Ready"
                /\ (ready > 0 /\ ready < desired) => e.State = "Running"
                /\ (ready = 0 /\ desired > 0) => e.State = "Pending"

\* C32: while the persisted status has phase Ready and observedGeneration
\* equal to the root's generation, the stored workload of every enabled
\* component agrees with the builder's document for the current desired state
\* on replica count, containers, volumes, identity reference and pull secrets.
ReadyWorkloadsMatchDesired ==
    (/\ root.exists
     /\ root.Status.Phase = "Ready"
     /\ root.Status.ObservedGeneration = root.Generation) =>
        \A w \in BuildAllServices(TheSpec(root)) \cup {WebName} :
            LET d == IF w = WebName THEN buildWebDeployment(TheSpec(root))
                     ELSE buildDeployment(TheSpec(root), w)
            IN
            /\ deploy[w].exists
            /\ deploy[w].Spec.Replicas = d.Replicas
            /\ deploy[w].Spec.Containers = d.Containers
            /\ deploy[w].Spec.Volumes = d.Volumes
            /\ deploy[w].Spec.ServiceAccountName = d.ServiceAccountName
            /\ deploy[w].Spec.ImagePullSecrets = d.ImagePullSecrets

\* C33: a root that carries a deletion timestamp eventually has no finalizer
\* in the store (it leaves the store with it), and the pass that removed the
\* finalizer returns without error and without asking for a requeue.
DeletionCompletes ==
    /\ [](\A p \in Passes :
            (log[p].removedFinalizer /\ pc[p] = "idle") => result[p] = Res(FALSE, 0, ""))
    /\ ((root.exists /\ root.Deleting) ~> ~root.Finalizer)

\* a pass has removed the finalizer and returned, in a run in which a store
\* call had failed
DeletionCompletesWitness ==
    \E p \in Passes :
        /\ log[p].removedFinalizer /\ pc[p] = "idle"
        /\ ~root.exists /\ ~crb
        /\ faults < MaxFaults

\* C34: a write of the root's main document (the finalizer added or removed)
\* by a pass is rejected whenever another writer changed the desired state or
\* the metadata of the root after the initial fetch of the pass: the stored
\* root stays as it is and the pass returns the error of the write.
StaleRootWriteRejected ==
    [][\A p \in Passes :
          (/\ pc[p] \in {"addFinalizer", "removeFinalizer"}
           /\ pc'[p] # pc[p]
           /\ log[p].changed) =>
              /\ root' = root
              /\ result'[p].Err = "update"]_vars

\* C35: a pass issues a delete only when its initial fetch showed a deletion
\* timestamp, and only for the root's cluster-scoped binding; while the root
\* is in the store no step removes a namespaced dependent resource, also not
\* one of a service or an exposure mode the desired state no longer has.
NoPruning ==
    /\ [](\A p \in Passes :
            /\ log[p].deletes \subseteq {<<"crb", "cluster-admin">>}
            /\ log[p].deletes # {} => log[p].sawDeleting)
    /\ [][(root.exists /\ root'.exists) =>
            /\ sa => sa'
            /\ secret.exists => secret'.exists
            /\ ingress => ingress'
            /\ \A n \in DOMAIN cms : cms[n].exists => cms'[n].exists
            /\ \A w \in Workloads :
                  /\ deploy[w].exists => deploy'[w].exists
                  /\ svc[w].exists => svc'[w].exists
            /\ (crb /\ ~crb') =>
                  \E p \in Passes : pc[p] = "deleteBinding" /\ log[p].sawDeleting]_vars

\* the desired state went from the ingress with two services back to the node
\* port with one, a full pass reported Ready for it, and the workload and
\* network-expose document of the dropped service and the ingress are still there
NoPruningWitness ==
    /\ root.exists /\ root.Spec = "np"
    /\ root.Status.Phase = "Ready" /\ root.Status.ObservedGeneration = root.Generation
    /\ root.Generation \in fullGens
    /\ "portal-rpc" \notin BuildAllServices(TheSpec(root))
    /\ deploy["portal-rpc"].exists /\ svc["portal-rpc"].exists
    /\ cms["portal-rpc-config"].exists
    /\ ingress /\ ~WantsIngress(TheSpec(root))

\* C36: a pass changes or deletes a stored document only if the engine made it
\* for the root: a secret, config document or workload without the owner
\* reference, and a binding no pass created, are as they were after every step
OwnedOnly ==
    [][ /\ (secret.exists /\ ~secret.Owner) => secret' = secret
        /\ \A n \in DOMAIN cms : (cms[n].exists /\ ~cms[n].Owner) => cms'[n] = cms[n]
        /\ \A w \in Workloads :
               (deploy[w].exists /\ ~deploy[w].Owner) => deploy'[w] = deploy[w]
        /\ (crb /\ ~bindingMade) => crb' ]_vars

\* C37: the persisted phase of the root is empty, Failed, Creating, Ready or
\* Deleting in every reachable state: the Validating phase a pass holds in
\* memory is overwritten before any status write
ValidatingNeverPersisted ==
    root.exists => root.Status.Phase \in {"", "Failed", "Creating", "Ready", "Deleting"}

\* a pass that went through the validation stage has persisted its status
ValidatingNeverPersistedWitness ==
    /\ root.exists
    /\ root.Status.Validated = "True"
    /\ root.Status.Phase = "Failed"
    /\ root.Status.Message = "namespace"

\* C38: the persisted observedGeneration never exceeds the generation of the
\* stored root, and every status write of a pass records the generation the
\* pass read in its initial fetch, however passes and changes of the desired
\* state interleave
ObservedGenerationFetched ==
    /\ [](root.exists => root.Status.ObservedGeneration <= root.Generation)
    /\ [][\A p \in Passes :
             (pc[p] = "swUpdate" /\ pc'[p] = "swDone" /\ sw'[p].outcome = "ok")
                => root'.Status.ObservedGeneration = log[p].gen]_vars

\* a pass has persisted status for the generation it fetched after the desired
\* state moved on
ObservedGenerationFetchedWitness ==
    \E p \in Passes :
       /\ pc[p] = "swDone" /\ sw[p].outcome = "ok"
       /\ root.exists
       /\ root.Status.ObservedGeneration = log[p].gen
       /\ log[p].gen < root.Generation

====
